---- MODULE Spec2Model ----
(***************************************************************************)
(* Melbourne food site: RestaurantService (the catalog and its promos) and  *)
(* RecommendationService (the similarity engine and the scoring/ranking     *)
(* operations), with the /recommendations endpoints and their validation;  *)
(* and the tool-calling chatbot's OpenAIClient with its conversation        *)
(* history.                                                                 *)
(*                                                                          *)
(* Numbers.  Ratings are kept in tenths (4.5 is 45).  A cosine similarity   *)
(* is a fixed-point number in units of 1/CosScale, the exact quotient       *)
(* rounded toward zero, so that 1.0 and 0.0 are exact; ranking scores are   *)
(* exact rationals over a common denominator.                               *)
(***************************************************************************)
EXTENDS Integers, Sequences, FiniteSets, TLC

VARIABLES
    restaurants,        \* RestaurantService.restaurants (catalog order)
    promos,             \* RestaurantService.promos
    engine_set,         \* whether _setup_recommendation_engine has assigned the
                        \* two attributes below (it returns early on an empty
                        \* catalog, and assigns the frame before the matrix)
    restaurant_df,      \* RecommendationService.restaurant_df
    similarity_matrix,  \* RecommendationService.similarity_matrix
    pc,                 \* "idle": waiting for a call; "done": a call has ended;
                        \* "rejected": a request was answered without a call
    last,               \* the call that ended last: its arguments and outcome
    now,                \* the day datetime.now() gives
    setup,              \* a running _setup_recommendation_engine: the line it
                        \* is at and its local variable "restaurants"
    conversation_history,   \* OpenAIClient.conversation_history
    chat                \* the chat_completion call of the chatbot: the line it
                        \* is at, its locals and how it ended

\* The chatbot is a program of its own: the food site leaves its client alone
chat_vars == <<conversation_history, chat>>

vars == <<restaurants, promos, engine_set, restaurant_df, similarity_matrix, pc, last, now, setup,
          chat_vars>>

----------------------------------------------------------------------------
(* Bounds of the model *)

MaxItems == 3
MaxK == 3
\* The longest catalog of the runs over long catalogs: more restaurants than
\* the ten the student list asks for
MaxLong == 11
\* The chat_completion calls of a run of the chatbot, and the tool calls of
\* one reply
MaxCalls == 2
MaxToolCalls == 2

----------------------------------------------------------------------------
(* Python values *)

None == <<>>
Some(v) == <<v>>

Abs(a) == IF a < 0 THEN 0 - a ELSE a
Sign(a) == IF a < 0 THEN 0 - 1 ELSE IF a > 0 THEN 1 ELSE 0
Min(a, b) == IF a <= b THEN a ELSE b
Max(a, b) == IF a >= b THEN a ELSE b

RECURSIVE SumSeq(_)
SumSeq(s) == IF s = <<>> THEN 0 ELSE Head(s) + SumSeq(Tail(s))

\* A list built in full: the sequence with every element evaluated once
List(s) == s \o <<>>

\* The index a slice of s stops at: a negative hi counts from the end
SliceStop(s, hi) == IF hi < 0 THEN Max(0, Len(s) + hi) ELSE Min(hi, Len(s))

\* s[lo:hi] of Python for 0 <= lo
Slice(s, lo, hi) ==
    IF SliceStop(s, hi) <= lo THEN <<>>
    ELSE [i \in 1..(SliceStop(s, hi) - lo) |-> s[lo + i]]

----------------------------------------------------------------------------
(* models/restaurant.py *)

CuisineType == {"Italian", "Thai", "Chinese"}
CHEAP == "$"
MODERATE == "$$"
EXPENSIVE == "$$$"
VERY_EXPENSIVE == "$$$$"
PriceRange == <<CHEAP, MODERATE, EXPENSIVE, VERY_EXPENSIVE>>
PriceRangeSet == {PriceRange[i] : i \in 1..Len(PriceRange)}

\* The days the clock can show, and opening_hours dictionaries: open on both
\* days, "Closed" on Monday, and without an entry for Monday
Days == {"monday", "tuesday"}
OpenDaily == [d \in Days |-> "11:00 AM - 10:00 PM"]
ClosedMonday == [d \in Days |-> IF d = "monday" THEN "Closed" ELSE "11:00 AM - 10:00 PM"]
NoMonday == [d \in {"tuesday"} |-> "5:00 PM - 11:00 PM"]

Restaurant(id, cuisine, price, rating, desc, suburb, active, lat, flags, hours) ==
    [id |-> id, cuisine_type |-> cuisine, price_range |-> price, rating |-> rating,
     description |-> desc, suburb |-> suburb, is_active |-> active,
     opening_hours |-> hours,
     latitude |-> lat, longitude |-> IF lat = None THEN None ELSE Some(0),
     has_delivery |-> "delivery" \in flags,
     has_takeaway |-> "takeaway" \in flags,
     has_outdoor_seating |-> "outdoor" \in flags,
     is_wheelchair_accessible |-> "wheelchair" \in flags,
     accepts_reservations |-> "reservations" \in flags,
     has_lunch_specials |-> "lunch" \in flags,
     has_happy_hour |-> "happy" \in flags,
     student_discount |-> "student" \in flags]

\* The active restaurants a data file may hold.  Ids 1, 2 and 5 are the ones
\* the sample promos name.  Items 3 and 6 differ in their id alone.
Pool ==
    { Restaurant(1, "Italian", EXPENSIVE, 45, <<"Fresh", "pasta", "and", "wine">>,
                 "CBD", TRUE, Some(0), {"reservations", "delivery"}, ClosedMonday),
      Restaurant(3, "Italian", MODERATE, 40, <<"the", "pasta", "bar">>,
                 "Carlton", TRUE, Some(2), {"takeaway"}, OpenDaily),
      Restaurant(6, "Italian", MODERATE, 40, <<"the", "pasta", "bar">>,
                 "Carlton", TRUE, Some(2), {"takeaway"}, OpenDaily),
      Restaurant(4, "Thai", CHEAP, 30, <<"cheap", "noodles", "a", "bar">>,
                 "CBD", TRUE, None, {"student"}, NoMonday),
      Restaurant(7, "Thai", MODERATE, 40, <<"Pasta", "bar">>,
                 "Carlton", TRUE, Some(10), {"takeaway"}, OpenDaily) }

\* A restaurant with is_active = false
InactivePool ==
    { Restaurant(2, "Chinese", CHEAP, 35, <<"dumplings">>,
                 "CBD", FALSE, Some(1), {"lunch", "student"}, OpenDaily) }

\* The sequences of at most n active restaurants with unique ids
ActiveCatalogs(n) ==
    UNION { { s \in [1..m -> Pool] : \A i, j \in 1..m : i # j => s[i].id # s[j].id }
            : m \in 0..n }

\* A catalog, in file order: at most MaxItems restaurants with unique ids, an
\* inactive one, if any, first
Catalogs ==
    ActiveCatalogs(MaxItems)
        \cup { <<x>> \o s : x \in InactivePool, s \in ActiveCatalogs(MaxItems - 1) }

\* The restaurants of a long data file: the one at place i has id i and is
\* cheap (cheapest tier, near), plain (moderate tier, takeaway, farther) or
\* dear (expensive, takeaway, student discount, no coordinates)
LongItem(i, kind) ==
    CASE kind = "cheap" ->
            Restaurant(i, "Thai", CHEAP, 40, <<"noodles">>, "CBD", TRUE, Some(0), {},
                       OpenDaily)
      [] kind = "plain" ->
            Restaurant(i, "Italian", MODERATE, 45, <<"pasta">>, "Carlton", TRUE,
                       Some(7), {"takeaway"}, OpenDaily)
      [] kind = "dear" ->
            Restaurant(i, "Chinese", EXPENSIVE, 30, <<"dumplings">>, "CBD", TRUE,
                       None, {"takeaway", "student"}, ClosedMonday)

\* A long catalog: a dear restaurants, then b plain ones, then cheap ones up
\* to n in all
LongCatalog(n, a, b) ==
    [i \in 1..n |-> LongItem(i, IF i <= a THEN "dear"
                                 ELSE IF i <= a + b THEN "plain" ELSE "cheap")]

LongCatalogs ==
    { LongCatalog(n, a, b) : n \in 0..MaxLong, a \in 0..MaxLong, b \in 0..MaxLong }

\* _load_sample_promos: three offers, all active
SamplePromos ==
    << [id |-> 1, restaurant_id |-> 2, is_active |-> TRUE],
       [id |-> 2, restaurant_id |-> 1, is_active |-> TRUE],
       [id |-> 3, restaurant_id |-> 5, is_active |-> TRUE] >>

----------------------------------------------------------------------------
(* services/restaurant_service.py *)

\* get_all_restaurants
IsActive(r) == r.is_active
get_all_restaurants(rs) == SelectSeq(rs, IsActive)

\* get_restaurant_by_id: the restaurant, or None
get_restaurant_by_id(rs, restaurant_id) ==
    LET hit == SelectSeq(rs, LAMBDA r : r.id = restaurant_id /\ r.is_active)
    IN  IF hit = <<>> THEN None ELSE Some(Head(hit))

\* geopy.distance.geodesic(a, b).kilometers on a grid of whole kilometres
Geodesic(a, b) == Abs(a[1] - b[1]) + Abs(a[2] - b[2])

\* _is_currently_open when the clock shows day_name
IsOpenOn(restaurant, day_name) ==
    IF day_name \notin DOMAIN restaurant.opening_hours THEN FALSE
    ELSE IF restaurant.opening_hours[day_name] = "Closed" THEN FALSE
    ELSE TRUE

_is_currently_open(restaurant) == IsOpenOn(restaurant, now)

\* get_restaurants_with_details without filters: one response per active
\* restaurant, in catalog order
RestaurantResponse(r, ps, user_lat, user_lng) ==
    [restaurant |-> r,
     is_currently_open |-> _is_currently_open(r),
     current_promos |-> SelectSeq(ps, LAMBDA p : p.restaurant_id = r.id /\ p.is_active),
     distance_km |->
        IF user_lat # None /\ user_lng # None /\ r.latitude # None /\ r.longitude # None
        THEN Some(Geodesic(<<user_lat[1], user_lng[1]>>, <<r.latitude[1], r.longitude[1]>>))
        ELSE None]

get_restaurants_with_details(rs, ps, user_lat, user_lng) ==
    LET act == get_all_restaurants(rs)
    IN  List([i \in 1..Len(act) |-> RestaurantResponse(act[i], ps, user_lat, user_lng)])

----------------------------------------------------------------------------
(* services/recommendation_service.py: the feature frame *)

PriceNumeric(price) ==
    CASE price = "$" -> 1 [] price = "$$" -> 2 [] price = "$$$" -> 3
      [] price = "$$$$" -> 4 [] OTHER -> 2

BoolInt(b) == IF b THEN 1 ELSE 0

\* f"{cuisine_type.value} {description} {suburb}": a text is the sequence of
\* the words its blanks separate
TextFeatures(r) == <<r.cuisine_type>> \o r.description \o <<r.suburb>>

DataframeRow(r) ==
    [id |-> r.id, cuisine_type |-> r.cuisine_type, price_range |-> r.price_range,
     price_numeric |-> PriceNumeric(r.price_range), rating |-> r.rating,
     text_features |-> TextFeatures(r),
     has_delivery |-> BoolInt(r.has_delivery),
     has_takeaway |-> BoolInt(r.has_takeaway),
     has_outdoor_seating |-> BoolInt(r.has_outdoor_seating),
     is_wheelchair_accessible |-> BoolInt(r.is_wheelchair_accessible),
     accepts_reservations |-> BoolInt(r.accepts_reservations),
     has_lunch_specials |-> BoolInt(r.has_lunch_specials),
     has_happy_hour |-> BoolInt(r.has_happy_hour),
     student_discount |-> BoolInt(r.student_discount)]

_create_restaurant_dataframe(rs) == List([i \in 1..Len(rs) |-> DataframeRow(rs[i])])

----------------------------------------------------------------------------
(* The similarity engine: TfidfVectorizer(stop_words='english'),             *)
(* StandardScaler and cosine_similarity as _calculate_similarity_matrix      *)
(* uses them                                                                 *)

\* Resolution of a cosine similarity (three decimals) and of a standardized
\* feature (one decimal)
CosScale == 1000
ZScale == 10

\* str.lower on the words of the pool
Lower(w) ==
    CASE w = "Fresh" -> "fresh" [] w = "Pasta" -> "pasta" [] w = "Italian" -> "italian"
      [] w = "Thai" -> "thai" [] w = "Chinese" -> "chinese" [] w = "CBD" -> "cbd"
      [] w = "Carlton" -> "carlton" [] OTHER -> w

\* The words of one character, which the token pattern \b\w\w+\b drops
OneCharWords == {"a"}
\* The words of the pool that are in sklearn's English stop word list
EnglishStopWords == {"the", "and", "a"}

\* build_analyzer: lower-case, tokenize, drop the stop words
Analyze(text) ==
    LET low == [i \in 1..Len(text) |-> Lower(text[i])]
        tok == SelectSeq(low, LAMBDA w : w \notin OneCharWords)
    IN  SelectSeq(tok, LAMBDA w : w \notin EnglishStopWords)

\* Every term a text of the pool can give, in the vocabulary's sorted order
TermOrder ==
    << "bar", "carlton", "cbd", "cheap", "chinese", "dumplings", "fresh",
       "italian", "noodles", "pasta", "thai", "wine" >>

Count(doc, t) == Len(SelectSeq(doc, LAMBDA w : w = t))

\* vocabulary_: the terms that occur in some document
Vocabulary(docs) ==
    SelectSeq(TermOrder, LAMBDA t : \E i \in 1..Len(docs) : Count(docs[i], t) > 0)

\* Document frequency of a term
DocFreq(docs, t) == Cardinality({i \in 1..Len(docs) : Count(docs[i], t) > 0})

\* The smoothed idf ln((1 + n) / (1 + df)) + 1 in tenths, row n, column df
IdfTenths ==
    << <<10>>,
       <<14, 10>>,
       <<17, 13, 10>>,
       <<19, 15, 12, 10>>,
       <<21, 17, 14, 12, 10>>,
       <<23, 18, 16, 13, 12, 10>>,
       <<24, 20, 17, 15, 13, 11, 10>>,
       <<25, 21, 18, 16, 14, 13, 11, 10>>,
       <<26, 22, 19, 17, 15, 14, 12, 11, 10>>,
       <<27, 23, 20, 18, 16, 15, 13, 12, 11, 10>>,
       <<28, 24, 21, 19, 17, 15, 14, 13, 12, 11, 10>>,
       <<29, 25, 22, 20, 18, 16, 15, 14, 13, 12, 11, 10>>,
       <<29, 25, 23, 20, 18, 17, 16, 14, 13, 12, 12, 11, 10>> >>

\* fit_transform: one tf * idf row per document (the rows' L2 norm is left
\* to the cosine, which divides by it)
TfidfFitTransform(texts) ==
    LET docs == List([i \in 1..Len(texts) |-> Analyze(texts[i])])
        voc  == Vocabulary(docs)
        idf  == List([c \in 1..Len(voc) |-> IdfTenths[Len(docs)][DocFreq(docs, voc[c])]])
    IN  List([i \in 1..Len(docs) |->
                 List([c \in 1..Len(voc) |-> Count(docs[i], voc[c]) * idf[c]])])

\* The least r with r * r >= y, for 0 <= y <= hi * hi
RECURSIVE CeilSqrtIn(_, _, _)
CeilSqrtIn(y, lo, hi) ==
    IF lo >= hi THEN lo
    ELSE LET mid == (lo + hi) \div 2
         IN  IF mid * mid >= y THEN CeilSqrtIn(y, lo, mid) ELSE CeilSqrtIn(y, mid + 1, hi)

\* The greatest r with r * r <= y, for 0 <= y
FloorSqrt(y) ==
    LET c == CeilSqrtIn(y, 0, y) IN IF c * c = y THEN c ELSE c - 1

Dot(u, v) == SumSeq([c \in 1..Len(u) |-> u[c] * v[c]])

\* Mutant of Cosine: the product is divided by the first row's squared norm
\* alone
CosineByRowNorm(u, v) ==
    LET uu == Dot(u, u)
        vv == Dot(v, v)
        uv == Dot(u, v)
    IN  IF uu = 0 \/ vv = 0 THEN 0
        ELSE Sign(uv) * Min(CosScale, (Abs(uv) * CosScale) \div uu)

\* One entry of sklearn's cosine_similarity: the rows are normalized (a zero
\* row stays zero) and multiplied
Cosine(u, v) ==
    LET uu == Dot(u, u)
        vv == Dot(v, v)
        uv == Dot(u, v)
    IN  IF uu = 0 \/ vv = 0 THEN 0
        ELSE Sign(uv) * ((Abs(uv) * CosScale) \div CeilSqrtIn(uu * vv, 0, Max(uu, vv)))

cosine_similarity(X) ==
    List([i \in 1..Len(X) |-> List([j \in 1..Len(X) |-> Cosine(X[i], X[j])])])

\* StandardScaler.fit_transform on one column: (x - mean) / std with the
\* population deviation, a constant column scaled by 1
StandardizeColumn(col) ==
    LET n   == Len(col)
        sum == SumSeq(col)
        dev == List([i \in 1..n |-> n * col[i] - sum])
        D   == Dot(dev, dev)
    IN  List([i \in 1..n |->
                 IF D = 0 THEN 0
                 ELSE Sign(dev[i])
                          * FloorSqrt((ZScale * ZScale * dev[i] * dev[i] * n) \div D)])

NumericalColumns(df) ==
    << List([i \in 1..Len(df) |-> df[i].price_numeric]),
       List([i \in 1..Len(df) |-> df[i].rating]),
       List([i \in 1..Len(df) |-> df[i].has_delivery]),
       List([i \in 1..Len(df) |-> df[i].has_takeaway]),
       List([i \in 1..Len(df) |-> df[i].has_outdoor_seating]),
       List([i \in 1..Len(df) |-> df[i].is_wheelchair_accessible]),
       List([i \in 1..Len(df) |-> df[i].accepts_reservations]),
       List([i \in 1..Len(df) |-> df[i].has_lunch_specials]),
       List([i \in 1..Len(df) |-> df[i].has_happy_hour]),
       List([i \in 1..Len(df) |-> df[i].student_discount]) >>

ScalerFitTransform(df) ==
    LET cols == NumericalColumns(df)
        z    == List([c \in 1..Len(cols) |-> StandardizeColumn(cols[c])])
    IN  List([i \in 1..Len(df) |-> List([c \in 1..Len(cols) |-> z[c][i]])])

\* The weights of the text and of the numerical similarity, in tenths
TextWeight == 6
NumericalWeight == 4

\* text_similarity and numerical_similarity of _calculate_similarity_matrix
TextSimilarity(df) ==
    cosine_similarity(TfidfFitTransform(List([i \in 1..Len(df) |-> df[i].text_features])))

NumericalSimilarity(df) == cosine_similarity(ScalerFitTransform(df))

\* _calculate_similarity_matrix: entries in units of 1 / (10 * CosScale)
_calculate_similarity_matrix(df) ==
    IF df = <<>> THEN <<>>
    ELSE LET text_similarity == TextSimilarity(df)
             numerical_similarity == NumericalSimilarity(df)
         IN  List([i \in 1..Len(df) |-> List([j \in 1..Len(df) |->
                 TextWeight * text_similarity[i][j]
                     + NumericalWeight * numerical_similarity[i][j]])])

\* The value 1.0 of a combined similarity
One == (TextWeight + NumericalWeight) * CosScale

----------------------------------------------------------------------------
(* Python's sorted(..., key=lambda x: x[1], reverse=True) and                *)
(* list.sort(key=..., reverse=True) on a list of (value, key) pairs: by      *)
(* descending key, elements with equal keys in their original order          *)

\* Mutant of SortedReverse: an ascending stable sort, then reversed, which
\* puts elements with equal keys in reverse order
SortedThenReversed(pairs) ==
    LET n == Len(pairs)
        before(i) == {j \in 1..n : \/ pairs[j][2] > pairs[i][2]
                                   \/ pairs[j][2] = pairs[i][2] /\ j > i}
    IN  [p \in 1..n |-> pairs[CHOOSE i \in 1..n : Cardinality(before(i)) = p - 1]]

SortedReverse(pairs) ==
    LET n == Len(pairs)
        before(i) == {j \in 1..n : \/ pairs[j][2] > pairs[i][2]
                                   \/ pairs[j][2] = pairs[i][2] /\ j < i}
    IN  [p \in 1..n |-> pairs[CHOOSE i \in 1..n : Cardinality(before(i)) = p - 1]]

\* The outcome of a call: the ids of the responses it returns, in order, or
\* the exception it raises
Returns(ids) == [result |-> ids, raised |-> "none"]
Raises(exc) == [result |-> <<>>, raised |-> exc]

Ids(responses) == [i \in 1..Len(responses) |-> responses[i].restaurant.id]

----------------------------------------------------------------------------
(* RecommendationService.__init__ and _setup_recommendation_engine *)

\* "if not restaurants: return" leaves both attributes unassigned
SetupAssigns(rs) == get_all_restaurants(rs) # <<>>

SetupDataframe(rs) ==
    IF SetupAssigns(rs) THEN _create_restaurant_dataframe(get_all_restaurants(rs))
    ELSE <<>>

SetupSimilarityMatrix(rs) ==
    IF SetupAssigns(rs) THEN _calculate_similarity_matrix(SetupDataframe(rs))
    ELSE <<>>

----------------------------------------------------------------------------
(* get_similar_restaurants *)

\* Mutant of MatchingIndex: an unknown id falls back to the first row
MatchingIndexOrFirst(df, restaurant_id) ==
    LET hit == SelectSeq([i \in 1..Len(df) |-> i], LAMBDA i : df[i].id = restaurant_id)
    IN  IF hit = <<>> THEN <<1>> ELSE hit

\* restaurant_df[restaurant_df['id'] == restaurant_id].index: the positions
\* of the rows with this id, in order
MatchingIndex(df, restaurant_id) ==
    SelectSeq([i \in 1..Len(df) |-> i], LAMBDA i : df[i].id = restaurant_id)

\* Mutant of ExcludeSelf: the slice starts at 0
ExcludeNothing(similarity_scores, num_recommendations) ==
    Slice(similarity_scores, 0, num_recommendations + 1)

\* similarity_scores[1:num_recommendations+1]
ExcludeSelf(similarity_scores, num_recommendations) ==
    Slice(similarity_scores, 1, num_recommendations + 1)

\* Mutant of DetailedResponses: a response for every id of the frame
DetailedResponsesOfFrame(rs, ps, similar_ids) == similar_ids

\* The responses loop: an id is kept when get_restaurant_by_id finds it and
\* get_restaurants_with_details has a response for it
DetailedResponses(rs, ps, similar_ids) ==
    LET details == Ids(get_restaurants_with_details(rs, ps, None, None))
    IN  SelectSeq(similar_ids,
            LAMBDA id : /\ get_restaurant_by_id(rs, id) # None
                        /\ \E i \in 1..Len(details) : details[i] = id)

\* similarity_matrix[restaurant_idx] and restaurant_df.iloc[idx] raise
\* IndexError, which the method catches, when the matrix has fewer rows than
\* the frame or the frame fewer rows than the matrix
get_similar_restaurants(assigned, df, matrix, rs, ps, restaurant_id, num_recommendations) ==
    IF ~assigned THEN Raises("AttributeError")   \* an attribute does not exist
    ELSE IF df = <<>> \/ matrix = <<>> THEN Returns(<<>>)
    ELSE LET index == MatchingIndex(df, restaurant_id)
         IN  IF index = <<>> THEN Returns(<<>>)      \* IndexError, caught
             ELSE IF index[1] > Len(matrix) THEN Returns(<<>>)
             ELSE LET restaurant_idx == index[1]
                      row == matrix[restaurant_idx]
                      similarity_scores ==
                          SortedReverse([j \in 1..Len(row) |-> <<j, row[j]>>])
                      similar_restaurants ==
                          ExcludeSelf(similarity_scores, num_recommendations)
                  IN  IF \E i \in 1..Len(similar_restaurants) :
                             similar_restaurants[i][1] > Len(df)
                      THEN Returns(<<>>)
                      ELSE LET similar_ids == [i \in 1..Len(similar_restaurants) |->
                                                  df[similar_restaurants[i][1]].id]
                           IN  Returns(DetailedResponses(rs, ps, similar_ids))

----------------------------------------------------------------------------
(* get_personalized_recommendations and the operations that delegate to it  *)

\* A score is the numerator of a fraction over 1000 * u, where u is
\* ScoreUnit(max_distance_km), so that 0.4 is 400 * u and
\* distance / max_distance is exact
ScoreUnit(max_distance_km) == IF max_distance_km = 0 THEN 1 ELSE Abs(max_distance_km)

\* 1 - (distance_km / max_distance_km) divides by zero
ScoreRaises(response, max_distance_km) ==
    /\ response.distance_km # None
    /\ response.distance_km[1] <= max_distance_km
    /\ max_distance_km = 0

\* Mutant of PersonalizedScore: the neutral score of an unknown distance is
\* weighted by 0.1 like a known one
PersonalizedScoreNeutralWeighted(response, preferred_cuisines, preferred_price_range, max_distance_km) ==
    LET u == ScoreUnit(max_distance_km)
        restaurant == response.restaurant
        cuisine == IF restaurant.cuisine_type \in preferred_cuisines THEN 400 * u ELSE 0
        price == IF restaurant.price_range \in preferred_price_range THEN 200 * u ELSE 0
        rating == 4 * restaurant.rating * u
        distance ==
            IF response.distance_km # None
            THEN IF response.distance_km[1] <= max_distance_km
                 THEN 100 * Max(0, u - response.distance_km[1])
                 ELSE 0
            ELSE 5 * u
        promo == IF response.current_promos # <<>> THEN 100 * u ELSE 0
    IN  cuisine + price + rating + distance + promo

\* Mutant of DistanceScore: a distance beyond max_distance_km gets the neutral
\* score of an unknown one
DistanceScoreNeutralBeyond(response, max_distance_km) ==
    LET u == ScoreUnit(max_distance_km)
    IN  IF response.distance_km # None /\ response.distance_km[1] <= max_distance_km
        THEN 100 * Max(0, u - response.distance_km[1])
        ELSE 50 * u

\* "Distance score (10% weight)": what lines 158 to 163 add to the score
DistanceScore(response, max_distance_km) ==
    LET u == ScoreUnit(max_distance_km)
    IN  IF response.distance_km # None
        THEN IF response.distance_km[1] <= max_distance_km
             THEN 100 * Max(0, u - response.distance_km[1])
             ELSE 0
        ELSE 50 * u

\* Mutant of PersonalizedScore: the rating counts for 0.3
PersonalizedScoreRatingHeavy(response, preferred_cuisines, preferred_price_range, max_distance_km) ==
    LET u == ScoreUnit(max_distance_km)
        restaurant == response.restaurant
        cuisine == IF restaurant.cuisine_type \in preferred_cuisines THEN 400 * u ELSE 0
        price == IF restaurant.price_range \in preferred_price_range THEN 200 * u ELSE 0
        rating == 6 * restaurant.rating * u
        distance == DistanceScore(response, max_distance_km)
        promo == IF response.current_promos # <<>> THEN 100 * u ELSE 0
    IN  cuisine + price + rating + distance + promo

\* The loop body: the score of one response
PersonalizedScore(response, preferred_cuisines, preferred_price_range, max_distance_km) ==
    LET u == ScoreUnit(max_distance_km)
        restaurant == response.restaurant
        cuisine == IF restaurant.cuisine_type \in preferred_cuisines THEN 400 * u ELSE 0
        price == IF restaurant.price_range \in preferred_price_range THEN 200 * u ELSE 0
        rating == 4 * restaurant.rating * u
        distance == DistanceScore(response, max_distance_km)
        promo == IF response.current_promos # <<>> THEN 100 * u ELSE 0
    IN  cuisine + price + rating + distance + promo

\* Mutant of TopK: the list is cut to num_recommendations before it is sorted
TopKOfFirstK(scored, num_recommendations) ==
    LET ranked == SortedReverse(List(Slice(scored, 0, num_recommendations)))
    IN  List([i \in 1..Len(ranked) |-> ranked[i][1]])

\* scored_restaurants[:num_recommendations] after the sort
TopK(scored, num_recommendations) ==
    LET ranked == SortedReverse(List(scored))
        top == Slice(ranked, 0, num_recommendations)
    IN  List([i \in 1..Len(top) |-> top[i][1]])

UserLat(user_location) == IF user_location # None THEN Some(user_location[1][1]) ELSE None
UserLng(user_location) == IF user_location # None THEN Some(user_location[1][2]) ELSE None

\* The ranked responses of get_personalized_recommendations, or the exception
PersonalizedResponses(rs, ps, preferred_cuisines, preferred_price_range, user_location, max_distance_km, num_recommendations) ==
    LET all_restaurants ==
            get_restaurants_with_details(rs, ps, UserLat(user_location), UserLng(user_location))
    IN  IF \E i \in 1..Len(all_restaurants) : ScoreRaises(all_restaurants[i], max_distance_km)
        THEN [responses |-> <<>>, raised |-> "ZeroDivisionError"]
        ELSE [responses |->
                 TopK([i \in 1..Len(all_restaurants) |->
                          <<all_restaurants[i],
                            PersonalizedScore(all_restaurants[i], preferred_cuisines,
                                              preferred_price_range, max_distance_km)>>],
                      num_recommendations),
              raised |-> "none"]

Outcome(r) == [result |-> Ids(r.responses), raised |-> r.raised]

\* max_distance_km: float = 10.0
DefaultMaxDistance == 10

\* Mutant of BudgetRanges: every tier up to the ceiling
BudgetRangesUpToCeiling(max_price) ==
    {PriceRange[i] : i \in 1..PriceNumeric(max_price)}

\* budget_ranges of get_budget_friendly_recommendations
BudgetRanges(max_price) ==
    {CHEAP} \cup (IF max_price \in {MODERATE, EXPENSIVE, VERY_EXPENSIVE}
                  THEN {MODERATE} ELSE {})

BudgetFriendlyResponses(rs, ps, max_price, user_location, num_recommendations) ==
    PersonalizedResponses(rs, ps, CuisineType, BudgetRanges(max_price),
                          user_location, DefaultMaxDistance, num_recommendations)

\* Mutant of CuisineResponses: the preferred tiers are the two budget tiers
CuisineResponsesBudgetTiers(rs, ps, cuisine_type, user_location, num_recommendations) ==
    PersonalizedResponses(rs, ps, {cuisine_type}, {CHEAP, MODERATE},
                          user_location, DefaultMaxDistance, num_recommendations)

CuisineResponses(rs, ps, cuisine_type, user_location, num_recommendations) ==
    PersonalizedResponses(rs, ps, {cuisine_type}, PriceRangeSet,
                          user_location, DefaultMaxDistance, num_recommendations)

----------------------------------------------------------------------------
(* get_trending_restaurants *)

\* Mutant of TrendingScore: the rating is normalized to rating / 5 as in the
\* personalized score
TrendingScoreNormalized(response) ==
    (response.restaurant.rating \div 5)
        + (IF response.current_promos # <<>> THEN 5 ELSE 0)
        + (IF response.restaurant.student_discount THEN 3 ELSE 0)
        + (IF response.restaurant.has_lunch_specials THEN 2 ELSE 0)

\* Mutant of TrendingScore: a restaurant that is open now gets a bonus of 2.0
TrendingScoreOpenBonus(response) ==
    response.restaurant.rating
        + (IF response.current_promos # <<>> THEN 5 ELSE 0)
        + (IF response.restaurant.student_discount THEN 3 ELSE 0)
        + (IF response.restaurant.has_lunch_specials THEN 2 ELSE 0)
        + (IF response.is_currently_open THEN 20 ELSE 0)

\* rating + 0.5 + 0.3 + 0.2, in tenths
TrendingScore(response) ==
    response.restaurant.rating
        + (IF response.current_promos # <<>> THEN 5 ELSE 0)
        + (IF response.restaurant.student_discount THEN 3 ELSE 0)
        + (IF response.restaurant.has_lunch_specials THEN 2 ELSE 0)

TrendingResponses(rs, ps, num_recommendations) ==
    LET all_restaurants == get_restaurants_with_details(rs, ps, None, None)
    IN  TopK([i \in 1..Len(all_restaurants) |->
                 <<all_restaurants[i], TrendingScore(all_restaurants[i])>>],
             num_recommendations)

----------------------------------------------------------------------------
(* get_quick_lunch_recommendations *)

IsLunchFriendly(restaurant) ==
    \/ restaurant.has_takeaway
    \/ restaurant.has_lunch_specials
    \/ restaurant.price_range \in {CHEAP, MODERATE}

\* Mutant of LunchEligible: the distance is not checked
LunchEligibleAtAnyDistance(response, max_distance_km) ==
    IsLunchFriendly(response.restaurant)

\* The two branches of "Check distance"
LunchEligible(response, max_distance_km) ==
    \/ /\ response.distance_km # None
       /\ response.distance_km[1] <= max_distance_km
       /\ IsLunchFriendly(response.restaurant)
    \/ /\ response.distance_km = None
       /\ IsLunchFriendly(response.restaurant)

\* lunch_restaurants[:8]
QuickLunchLimit == 8

\* Mutant of QuickLunchResponses: the sorted list is returned whole
QuickLunchResponsesUncut(rs, ps, user_location, max_distance_km) ==
    LET all_restaurants ==
            get_restaurants_with_details(rs, ps, UserLat(user_location), UserLng(user_location))
        lunch_restaurants ==
            SelectSeq(all_restaurants, LAMBDA r : LunchEligible(r, max_distance_km))
    IN  TopK([i \in 1..Len(lunch_restaurants) |->
                 <<lunch_restaurants[i], lunch_restaurants[i].restaurant.rating>>],
             Len(lunch_restaurants))

QuickLunchResponses(rs, ps, user_location, max_distance_km) ==
    LET all_restaurants ==
            get_restaurants_with_details(rs, ps, UserLat(user_location), UserLng(user_location))
        lunch_restaurants ==
            SelectSeq(all_restaurants, LAMBDA r : LunchEligible(r, max_distance_km))
    IN  TopK([i \in 1..Len(lunch_restaurants) |->
                 <<lunch_restaurants[i], lunch_restaurants[i].restaurant.rating>>],
             QuickLunchLimit)

----------------------------------------------------------------------------
(* api/recommendations.py: GET /recommendations/for-students *)

\* "if user_lat and user_lng": None and 0.0 are both false
Truthy(x) == x # None /\ x[1] # 0

\* Mutant of IsStudentFriendly: the cheapest price tier alone does not qualify
IsStudentFriendlyWithoutCheap(restaurant) ==
    \/ restaurant.student_discount
    \/ restaurant.has_lunch_specials

\* "Prioritize restaurants with student discounts or cheap prices"
IsStudentFriendly(restaurant) ==
    \/ restaurant.student_discount
    \/ restaurant.price_range = CHEAP
    \/ restaurant.has_lunch_specials

\* num_recommendations=10 of the budget-friendly call, and the 8 of the list
StudentBudgetCount == 10
StudentLimit == 8

\* user_location = (user_lat, user_lng) if user_lat and user_lng else None
EndpointLocation(user_lat, user_lng) ==
    IF Truthy(user_lat) /\ Truthy(user_lng)
    THEN Some(<<user_lat[1], user_lng[1]>>) ELSE None

\* Mutant of Backfill: the second pass does not skip the ids it already has
BackfillWithoutSkip(student_friendly, budget_restaurants) ==
    IF Len(student_friendly) < StudentLimit
    THEN student_friendly
             \o Slice(budget_restaurants, 0, StudentLimit - Len(student_friendly))
    ELSE student_friendly

\* "If we don't have enough, add more budget options": the second pass over
\* budget_restaurants
Backfill(student_friendly, budget_restaurants) ==
    LET existing_ids == {student_friendly[i].restaurant.id : i \in 1..Len(student_friendly)}
        others == SelectSeq(budget_restaurants, LAMBDA r : r.restaurant.id \notin existing_ids)
    IN  IF Len(student_friendly) < StudentLimit
        THEN student_friendly \o Slice(others, 0, StudentLimit - Len(student_friendly))
        ELSE student_friendly

\* Mutant of StudentFriendlyResponses: the budget-friendly call asks for every
\* restaurant
StudentFriendlyResponsesOfAll(rs, ps, user_lat, user_lng) ==
    LET budget_restaurants ==
            BudgetFriendlyResponses(rs, ps, MODERATE, EndpointLocation(user_lat, user_lng),
                                    Len(rs)).responses
        student_friendly ==
            SelectSeq(budget_restaurants, LAMBDA r : IsStudentFriendly(r.restaurant))
    IN  Slice(Backfill(student_friendly, budget_restaurants), 0, StudentLimit)

StudentFriendlyResponses(rs, ps, user_lat, user_lng) ==
    LET budget_restaurants ==
            BudgetFriendlyResponses(rs, ps, MODERATE, EndpointLocation(user_lat, user_lng),
                                    StudentBudgetCount).responses
        student_friendly ==
            SelectSeq(budget_restaurants, LAMBDA r : IsStudentFriendly(r.restaurant))
    IN  Slice(Backfill(student_friendly, budget_restaurants), 0, StudentLimit)

----------------------------------------------------------------------------
(* The state machine: a service pair built over a catalog, then calls *)

\* The arguments the calls are made with
QueryIds == {r.id : r \in Pool \cup InactivePool} \cup {99}
Counts == 1..MaxK
CuisineLists == {{}, {"Italian"}, {"Italian", "Thai"}}
PriceLists == {{CHEAP, MODERATE}, {EXPENSIVE}}
UserLocations == {None, Some(<<0, 0>>)}
MaxDistances == {0, 3, 5, 10}
UserCoordinates == {None, Some(0), Some(1)}
\* A user location with a max distance: without a location every distance is
\* unknown and the max distance is left at 10 km
Contexts ==
    {<<None, DefaultMaxDistance>>}
        \cup {<<user_location, max_distance_km>> :
                 user_location \in UserLocations \ {None}, max_distance_km \in MaxDistances}

\* No chat_completion has been called
NoChat ==
    [line |-> 0, message |-> "", tool_calls |-> <<>>, tasks |-> <<>>, sent |-> <<>>,
     before |-> <<>>, ended |-> "none", calls |-> 0]

\* No _setup_recommendation_engine is running
NoSetup == [line |-> 0, restaurants |-> <<>>]

NoCall == [op |-> "none", arg |-> <<>>, result |-> <<>>, raised |-> "none", at |-> "never"]

\* A call, its outcome and the day it was made on
Call(op, arg, outcome) ==
    [op |-> op, arg |-> arg, result |-> outcome.result, raised |-> outcome.raised,
     at |-> now]

Init ==
    /\ restaurants \in Catalogs
    /\ promos = SamplePromos
    /\ engine_set = SetupAssigns(restaurants)
    /\ restaurant_df = SetupDataframe(restaurants)
    /\ similarity_matrix = SetupSimilarityMatrix(restaurants)
    /\ pc = "idle"
    /\ last = NoCall
    /\ now \in Days
    /\ setup = NoSetup
    /\ conversation_history = <<>>
    /\ chat = NoChat

\* Mutant of Frame: a call filters the shared restaurant list in place
FrameFiltersCatalog ==
    /\ restaurants' = get_all_restaurants(restaurants)
    /\ UNCHANGED <<promos, engine_set, restaurant_df, similarity_matrix, setup, chat_vars>>

\* What no operation assigns
Frame ==
    UNCHANGED <<restaurants, promos, engine_set, restaurant_df, similarity_matrix, setup,
                chat_vars>>

GetSimilar ==
    /\ pc = "idle"
    /\ \E restaurant_id \in QueryIds, num_recommendations \in Counts :
          last' = Call("similar",
                       [restaurant_id |-> restaurant_id,
                        num_recommendations |-> num_recommendations],
                       get_similar_restaurants(engine_set, restaurant_df, similarity_matrix,
                                               restaurants, promos,
                                               restaurant_id, num_recommendations))
    /\ pc' = "done"
    /\ Frame
    /\ UNCHANGED now

GetPersonalized ==
    /\ pc = "idle"
    /\ \E preferred_cuisines \in CuisineLists, preferred_price_range \in PriceLists,
          context \in Contexts, num_recommendations \in Counts :
          LET user_location == context[1]
              max_distance_km == context[2]
          IN
          last' = Call("personalized",
                       [preferred_cuisines |-> preferred_cuisines,
                        preferred_price_range |-> preferred_price_range,
                        user_location |-> user_location,
                        max_distance_km |-> max_distance_km,
                        num_recommendations |-> num_recommendations],
                       Outcome(PersonalizedResponses(restaurants, promos, preferred_cuisines,
                                   preferred_price_range, user_location, max_distance_km,
                                   num_recommendations)))
    /\ pc' = "done"
    /\ Frame
    /\ UNCHANGED now

GetBudgetFriendly ==
    /\ pc = "idle"
    /\ \E max_price \in PriceRangeSet, user_location \in UserLocations,
          num_recommendations \in Counts :
          last' = Call("budget_friendly",
                       [max_price |-> max_price, user_location |-> user_location,
                        num_recommendations |-> num_recommendations],
                       Outcome(BudgetFriendlyResponses(restaurants, promos, max_price,
                                   user_location, num_recommendations)))
    /\ pc' = "done"
    /\ Frame
    /\ UNCHANGED now

GetTrending ==
    /\ pc = "idle"
    /\ \E num_recommendations \in Counts :
          last' = Call("trending", [num_recommendations |-> num_recommendations],
                       Returns(Ids(TrendingResponses(restaurants, promos,
                                                     num_recommendations))))
    /\ pc' = "done"
    /\ Frame
    /\ UNCHANGED now

GetCuisine ==
    /\ pc = "idle"
    /\ \E cuisine_type \in CuisineType, user_location \in UserLocations,
          num_recommendations \in Counts :
          last' = Call("cuisine",
                       [cuisine_type |-> cuisine_type, user_location |-> user_location,
                        num_recommendations |-> num_recommendations],
                       Outcome(CuisineResponses(restaurants, promos, cuisine_type,
                                   user_location, num_recommendations)))
    /\ pc' = "done"
    /\ Frame
    /\ UNCHANGED now

GetQuickLunch ==
    /\ pc = "idle"
    /\ \E context \in Contexts :
          LET user_location == context[1]
              max_distance_km == context[2]
          IN
          last' = Call("quick_lunch",
                       [user_location |-> user_location,
                        max_distance_km |-> max_distance_km],
                       Returns(Ids(QuickLunchResponses(restaurants, promos, user_location,
                                                       max_distance_km))))
    /\ pc' = "done"
    /\ Frame
    /\ UNCHANGED now

GetStudentFriendly ==
    /\ pc = "idle"
    /\ \E user_lat \in UserCoordinates, user_lng \in UserCoordinates :
          last' = Call("student_friendly", [user_lat |-> user_lat, user_lng |-> user_lng],
                       Returns(Ids(StudentFriendlyResponses(restaurants, promos,
                                                            user_lat, user_lng))))
    /\ pc' = "done"
    /\ Frame
    /\ UNCHANGED now

\* The caller takes the outcome; the services wait for the next call
Return ==
    /\ pc \in {"done", "rejected"}
    /\ pc' = "idle"
    /\ last' = NoCall
    /\ Frame
    /\ UNCHANGED now

\* The clock moves on to the next day, at any time
Tick ==
    /\ now = "monday"
    /\ now' = "tuesday"
    /\ UNCHANGED <<restaurants, promos, engine_set, restaurant_df, similarity_matrix, pc, last,
                   setup, chat_vars>>

Next ==
    \/ GetSimilar
    \/ GetPersonalized
    \/ GetBudgetFriendly
    \/ GetTrending
    \/ GetCuisine
    \/ GetQuickLunch
    \/ GetStudentFriendly
    \/ Return
    \/ Tick

Spec == Init /\ [][Next]_vars

\* The same services built over a long catalog, and the calls whose result
\* has a fixed length limit
InitLong ==
    /\ restaurants \in LongCatalogs
    /\ promos = SamplePromos
    /\ engine_set = SetupAssigns(restaurants)
    /\ restaurant_df = SetupDataframe(restaurants)
    /\ similarity_matrix = SetupSimilarityMatrix(restaurants)
    /\ pc = "idle"
    /\ last = NoCall
    /\ now \in Days
    /\ setup = NoSetup
    /\ conversation_history = <<>>
    /\ chat = NoChat

NextLong ==
    \/ GetQuickLunch
    \/ GetStudentFriendly
    \/ Return
    \/ Tick

SpecLong == InitLong /\ [][NextLong]_vars

\* The same services built over two restaurants whose category, tier, rating
\* and place run over their extremes, and the calls by category.  Item 1 has
\* an active promo, items 3 and 6 have none.
ScoreRatings == {0, 25, 50}
ScoreLatitudes == {None, Some(0), Some(4), Some(10), Some(12)}
ScoreItems(id) ==
    { Restaurant(id, cuisine, price, rating, <<"bar">>, "CBD", TRUE, lat, {}, OpenDaily) :
          cuisine \in {"Italian", "Thai"}, price \in {CHEAP, VERY_EXPENSIVE},
          rating \in ScoreRatings, lat \in ScoreLatitudes }
ScoreCatalogs ==
    UNION { { <<a, b>> : a \in ScoreItems(ids[1]), b \in ScoreItems(ids[2]) }
            : ids \in {<<1, 3>>, <<3, 1>>, <<3, 6>>} }

InitScore ==
    /\ restaurants \in ScoreCatalogs
    /\ promos = SamplePromos
    /\ engine_set = SetupAssigns(restaurants)
    /\ restaurant_df = SetupDataframe(restaurants)
    /\ similarity_matrix = SetupSimilarityMatrix(restaurants)
    /\ pc = "idle"
    /\ last = NoCall
    /\ now \in Days
    /\ setup = NoSetup
    /\ conversation_history = <<>>
    /\ chat = NoChat

NextScore ==
    \/ GetCuisine
    \/ Return

SpecScore == InitScore /\ [][NextScore]_vars

----------------------------------------------------------------------------
(* The catalog changes under the services: RestaurantService.restaurants is *)
(* a plain list of mutable Restaurant objects                              *)

\* The restaurants the changing catalogs are made of
ChangePool == {r \in Pool : r.id \in {1, 3, 4}}
ChangeCatalogs ==
    UNION { { s \in [1..m -> ChangePool] : \A i, j \in 1..m : i # j => s[i].id # s[j].id }
            : m \in 0..Min(MaxItems, Cardinality(ChangePool)) }

RemoveAt(s, i) == SubSeq(s, 1, i - 1) \o SubSeq(s, i + 1, Len(s))

\* The clock stands still in these runs
InitChange ==
    /\ restaurants \in ChangeCatalogs
    /\ promos = SamplePromos
    /\ engine_set = SetupAssigns(restaurants)
    /\ restaurant_df = SetupDataframe(restaurants)
    /\ similarity_matrix = SetupSimilarityMatrix(restaurants)
    /\ pc = "idle"
    /\ last = NoCall
    /\ now = "monday"
    /\ setup = NoSetup
    /\ conversation_history = <<>>
    /\ chat = NoChat

\* What a change of the catalog leaves alone: nothing tells the
\* RecommendationService of it
ChangeFrame ==
    UNCHANGED <<promos, engine_set, restaurant_df, similarity_matrix, pc, last, now, setup,
                chat_vars>>

\* restaurant.is_active = False on a restaurant of the list
Deactivate ==
    /\ pc = "idle"
    /\ \E i \in 1..Len(restaurants) :
          /\ restaurants[i].is_active
          /\ restaurants' = [restaurants EXCEPT ![i].is_active = FALSE]
    /\ ChangeFrame

\* restaurants.append(restaurant), with an id the list does not hold
AppendRestaurant ==
    /\ pc = "idle"
    /\ \E r \in ChangePool :
          /\ \A i \in 1..Len(restaurants) : restaurants[i].id # r.id
          /\ restaurants' = Append(restaurants, r)
    /\ ChangeFrame

\* del restaurants[i]
RemoveRestaurant ==
    /\ pc = "idle"
    /\ \E i \in 1..Len(restaurants) : restaurants' = RemoveAt(restaurants, i)
    /\ ChangeFrame

\* _setup_recommendation_engine run again on the constructed service, one
\* line at a time.  Lines 25 to 27: the active restaurants are read; an empty
\* list ends the run
SetupRead ==
    /\ pc = "idle"
    /\ setup.line = 0
    /\ LET local == get_all_restaurants(restaurants)
       IN  setup' = IF local = <<>> THEN NoSetup
                    ELSE [line |-> 30, restaurants |-> local]
    /\ UNCHANGED <<restaurants, promos, engine_set, restaurant_df, similarity_matrix,
                   pc, last, now, chat_vars>>

\* Line 30: self.restaurant_df is assigned
SetupFrame ==
    /\ pc = "idle"
    /\ setup.line = 30
    /\ restaurant_df' = _create_restaurant_dataframe(setup.restaurants)
    /\ setup' = [setup EXCEPT !.line = 31]
    /\ UNCHANGED <<restaurants, promos, engine_set, similarity_matrix, pc, last, now,
                   chat_vars>>

\* Line 31: self.similarity_matrix is assigned, computed from self.restaurant_df
SetupMatrix ==
    /\ pc = "idle"
    /\ setup.line = 31
    /\ similarity_matrix' = _calculate_similarity_matrix(restaurant_df)
    /\ engine_set' = TRUE
    /\ setup' = NoSetup
    /\ UNCHANGED <<restaurants, promos, restaurant_df, pc, last, now, chat_vars>>

\* Similarity queries while the catalog changes and the engine is set up
\* again
NextReload ==
    \/ Deactivate
    \/ AppendRestaurant
    \/ RemoveRestaurant
    \/ SetupRead
    \/ SetupFrame
    \/ SetupMatrix
    \/ GetSimilar
    \/ Return

SpecReload == InitChange /\ [][NextReload]_vars

\* The seven operations over a catalog that changes after the services
\* were constructed
NextChange ==
    \/ Deactivate
    \/ AppendRestaurant
    \/ RemoveRestaurant
    \/ GetSimilar
    \/ GetPersonalized
    \/ GetBudgetFriendly
    \/ GetTrending
    \/ GetCuisine
    \/ GetQuickLunch
    \/ GetStudentFriendly
    \/ Return

SpecChange == InitChange /\ [][NextChange]_vars

----------------------------------------------------------------------------
(* api/recommendations.py: the endpoints, with the validation FastAPI does  *)
(* from their declarations before the endpoint function is called           *)

\* Query(..., ge=1, le=20) of num_recommendations
CountInRange(num_recommendations) ==
    num_recommendations >= 1 /\ num_recommendations <= 20

\* Query(2.0, ge=0.1, le=10.0) of max_distance_km, for whole kilometres
DistanceInRange(max_distance_km) ==
    max_distance_km >= 1 /\ max_distance_km <= 10

\* The request is answered 4xx and no service method is called
Rejected(error) == [result |-> <<>>, raised |-> error]

\* The values the requests carry, malformed ones among them
RequestCounts == {-1, 0, 1, 2}
RequestDistances == {-5, 0, 5}

\* What a request is answered with
Answer(valid, outcome) == IF valid THEN outcome ELSE Rejected("RequestValidationError")
\* Whether the endpoint function called the core
AnswerPc(valid) == IF valid THEN "done" ELSE "rejected"

\* GET /recommendations/similar/{restaurant_id}
ApiSimilar ==
    /\ pc = "idle"
    /\ \E restaurant_id \in QueryIds, num_recommendations \in RequestCounts :
          LET found == get_restaurant_by_id(restaurants, restaurant_id) # None
          IN  /\ last' = Call("similar",
                              [restaurant_id |-> restaurant_id,
                               num_recommendations |-> num_recommendations],
                              IF ~CountInRange(num_recommendations)
                              THEN Rejected("RequestValidationError")
                              ELSE IF ~found THEN Rejected("HTTPException")
                              ELSE get_similar_restaurants(engine_set, restaurant_df,
                                       similarity_matrix, restaurants, promos,
                                       restaurant_id, num_recommendations))
              /\ pc' = AnswerPc(CountInRange(num_recommendations) /\ found)
    /\ Frame
    /\ UNCHANGED now

\* POST /recommendations/personalized: the body's fields are typed only
ApiPersonalized ==
    /\ pc = "idle"
    /\ \E user_location \in UserLocations, max_distance_km \in RequestDistances,
          num_recommendations \in RequestCounts :
          last' = Call("personalized",
                       [preferred_cuisines |-> {"Italian"},
                        preferred_price_range |-> {CHEAP, MODERATE},
                        user_location |-> user_location,
                        max_distance_km |-> max_distance_km,
                        num_recommendations |-> num_recommendations],
                       Outcome(PersonalizedResponses(restaurants, promos, {"Italian"},
                                   {CHEAP, MODERATE}, user_location, max_distance_km,
                                   num_recommendations)))
    /\ pc' = "done"
    /\ Frame
    /\ UNCHANGED now

\* GET /recommendations/budget-friendly
ApiBudgetFriendly ==
    /\ pc = "idle"
    /\ \E user_lat \in UserCoordinates, user_lng \in UserCoordinates,
          num_recommendations \in RequestCounts :
          /\ last' = Call("budget_friendly",
                          [max_price |-> MODERATE, user_lat |-> user_lat,
                           user_lng |-> user_lng,
                           num_recommendations |-> num_recommendations],
                          Answer(CountInRange(num_recommendations),
                                 Outcome(BudgetFriendlyResponses(restaurants, promos,
                                             MODERATE, EndpointLocation(user_lat, user_lng),
                                             num_recommendations))))
          /\ pc' = AnswerPc(CountInRange(num_recommendations))
    /\ Frame
    /\ UNCHANGED now

\* GET /recommendations/trending
ApiTrending ==
    /\ pc = "idle"
    /\ \E num_recommendations \in RequestCounts :
          /\ last' = Call("trending", [num_recommendations |-> num_recommendations],
                          Answer(CountInRange(num_recommendations),
                                 Returns(Ids(TrendingResponses(restaurants, promos,
                                                               num_recommendations)))))
          /\ pc' = AnswerPc(CountInRange(num_recommendations))
    /\ Frame
    /\ UNCHANGED now

\* GET /recommendations/cuisine/{cuisine_type}
ApiCuisine ==
    /\ pc = "idle"
    /\ \E user_lat \in UserCoordinates, user_lng \in UserCoordinates,
          num_recommendations \in RequestCounts :
          /\ last' = Call("cuisine",
                          [cuisine_type |-> "Thai", user_lat |-> user_lat,
                           user_lng |-> user_lng,
                           num_recommendations |-> num_recommendations],
                          Answer(CountInRange(num_recommendations),
                                 Outcome(CuisineResponses(restaurants, promos, "Thai",
                                             EndpointLocation(user_lat, user_lng),
                                             num_recommendations))))
          /\ pc' = AnswerPc(CountInRange(num_recommendations))
    /\ Frame
    /\ UNCHANGED now

\* GET /recommendations/quick-lunch
ApiQuickLunch ==
    /\ pc = "idle"
    /\ \E user_lat \in UserCoordinates, user_lng \in UserCoordinates,
          max_distance_km \in RequestDistances :
          /\ last' = Call("quick_lunch",
                          [user_lat |-> user_lat, user_lng |-> user_lng,
                           max_distance_km |-> max_distance_km],
                          Answer(DistanceInRange(max_distance_km),
                                 Returns(Ids(QuickLunchResponses(restaurants, promos,
                                                 EndpointLocation(user_lat, user_lng),
                                                 max_distance_km)))))
          /\ pc' = AnswerPc(DistanceInRange(max_distance_km))
    /\ Frame
    /\ UNCHANGED now

\* GET /recommendations/for-students
ApiForStudents ==
    /\ pc = "idle"
    /\ \E user_lat \in UserCoordinates, user_lng \in UserCoordinates :
          last' = Call("student_friendly", [user_lat |-> user_lat, user_lng |-> user_lng],
                       Returns(Ids(StudentFriendlyResponses(restaurants, promos,
                                                            user_lat, user_lng))))
    /\ pc' = "done"
    /\ Frame
    /\ UNCHANGED now

NextApi ==
    \/ ApiSimilar
    \/ ApiPersonalized
    \/ ApiBudgetFriendly
    \/ ApiTrending
    \/ ApiCuisine
    \/ ApiQuickLunch
    \/ ApiForStudents
    \/ Return
    \/ Tick

SpecApi == Init /\ [][NextApi]_vars

----------------------------------------------------------------------------
(* tool_calling_chatbot/core/openai_client.py: OpenAIClient, with            *)
(* ToolRegistry.execute of core/base.py                                      *)

\* What the user types
Messages == {"hello", "2 + 2"}

\* What a tool call of a reply leads to: the tool returns its result, the
\* registry has no tool of that name, the arguments are not JSON, or the
\* tool raises
ToolCallKinds == <<"ok", "unknown", "badjson", "raises">>

\* The tool calls of a reply: n calls with ids 1 to n, their kinds taken in
\* turn from ToolCallKinds, starting at the first or the third
ToolCalls(n, shift) ==
    [i \in 1..n |-> [id |-> i, kind |-> ToolCallKinds[((i - 1 + shift) % 4) + 1]]]
Replies == {ToolCalls(n, shift) : n \in 1..MaxToolCalls, shift \in {0, 2}}

\* add_message: {"role": role, "content": content}, with "tool_calls" when
\* there are any
Message(role, content, tool_calls) ==
    [role |-> role, content |-> content, tool_calls |-> tool_calls, tool_call_id |-> 0]

\* ToolRegistry.execute and the except branch of execute_single_tool: the
\* ToolResult of a tool call
ToolResultOf(tool_call) ==
    CASE tool_call.kind = "ok" -> [success |-> TRUE, error |-> "none"]
      [] tool_call.kind = "unknown" -> [success |-> FALSE, error |-> "Tool not found"]
      [] tool_call.kind = "raises" -> [success |-> FALSE, error |-> "Error executing tool"]
      [] tool_call.kind = "badjson" -> [success |-> FALSE, error |-> "Tool execution error"]

\* add_tool_result: the JSON of the result, or its error
ToolMessage(tool_call_id, result) ==
    [role |-> "tool",
     content |-> IF result.success THEN "json of the result" ELSE result.error,
     tool_calls |-> <<>>, tool_call_id |-> tool_call_id]

\* Mutant of HistoryAtRequest: the user message is added with the reply
HistoryAtRequestWithoutUser(history, message) == history

\* Line 40: the user message is added before the first request is made
HistoryAtRequest(history, message) == Append(history, Message("user", message, <<>>))

\* Mutant of GatherDone: the wait ends with the first task that ends
GatherDoneFirst(tasks) == \E i \in 1..Len(tasks) : tasks[i] = "done"

\* await asyncio.gather(*tasks) returns when every task has ended
GatherDone(tasks) == \A i \in 1..Len(tasks) : tasks[i] = "done"

\* The chatbot starts with an empty history; the food site is not part of it
InitChat ==
    /\ restaurants = <<>>
    /\ promos = <<>>
    /\ engine_set = FALSE
    /\ restaurant_df = <<>>
    /\ similarity_matrix = <<>>
    /\ pc = "idle"
    /\ last = NoCall
    /\ now = "monday"
    /\ setup = NoSetup
    /\ conversation_history = <<>>
    /\ chat = NoChat

FoodSiteUnchanged ==
    UNCHANGED <<restaurants, promos, engine_set, restaurant_df, similarity_matrix, pc, last,
                now, setup>>

\* chat_completion(message) up to the first request, line 46
ChatCompletion ==
    /\ chat.line = 0
    /\ chat.calls < MaxCalls
    /\ \E message \in Messages :
          /\ conversation_history' = HistoryAtRequest(conversation_history, message)
          /\ chat' = [line |-> 46, message |-> message, tool_calls |-> <<>>, tasks |-> <<>>,
                      sent |-> conversation_history', before |-> conversation_history,
                      ended |-> "none", calls |-> chat.calls + 1]
    /\ FoodSiteUnchanged

\* The first request raises: "except Exception as e: raise RuntimeError(...)"
FirstRequestFails ==
    /\ chat.line = 46
    /\ chat' = [chat EXCEPT !.line = 0, !.ended = "RuntimeError"]
    /\ UNCHANGED conversation_history
    /\ FoodSiteUnchanged

\* The reply has no tool calls: lines 89 to 98
ReplyWithoutToolCalls ==
    /\ chat.line = 46
    /\ conversation_history' = Append(conversation_history, Message("assistant", "reply", <<>>))
    /\ chat' = [chat EXCEPT !.line = 0, !.ended = "returned"]
    /\ FoodSiteUnchanged

\* The reply has tool calls: lines 59 to 68, up to the start of the gather
ReplyWithToolCalls ==
    /\ chat.line = 46
    /\ \E tool_calls \in Replies :
          /\ conversation_history' =
                 Append(conversation_history,
                        Message("assistant", "", [i \in 1..Len(tool_calls) |-> tool_calls[i].id]))
          /\ chat' = [chat EXCEPT !.line = 68, !.tool_calls = tool_calls,
                                  !.tasks = [i \in 1..Len(tool_calls) |-> "new"]]
    /\ FoodSiteUnchanged

\* execute_single_tool of task i runs from its start: the tasks of a gather
\* start in order.  Arguments that are not JSON and an unknown tool end the
\* task at once; a tool may end at once or suspend in its execute
TaskStart ==
    /\ chat.line = 68
    /\ \E i \in 1..Len(chat.tasks) :
          /\ chat.tasks[i] = "new"
          /\ \A j \in 1..(i - 1) : chat.tasks[j] # "new"
          /\ \/ /\ conversation_history' =
                       Append(conversation_history,
                              ToolMessage(chat.tool_calls[i].id, ToolResultOf(chat.tool_calls[i])))
                /\ chat' = [chat EXCEPT !.tasks[i] = "done"]
             \/ /\ chat.tool_calls[i].kind \in {"ok", "raises"}
                /\ chat' = [chat EXCEPT !.tasks[i] = "awaiting"]
                /\ UNCHANGED conversation_history
    /\ FoodSiteUnchanged

\* A suspended task goes on: the tool returns or raises, and the task adds
\* its tool result
TaskResume ==
    /\ chat.line = 68
    /\ \E i \in 1..Len(chat.tasks) :
          /\ chat.tasks[i] = "awaiting"
          /\ conversation_history' =
                 Append(conversation_history,
                        ToolMessage(chat.tool_calls[i].id, ToolResultOf(chat.tool_calls[i])))
          /\ chat' = [chat EXCEPT !.tasks[i] = "done"]
    /\ FoodSiteUnchanged

\* The gather returns and the second request is made, line 71
SecondRequest ==
    /\ chat.line = 68
    /\ GatherDone(chat.tasks)
    /\ chat' = [chat EXCEPT !.line = 71, !.sent = conversation_history]
    /\ UNCHANGED conversation_history
    /\ FoodSiteUnchanged

\* The second request raises
SecondRequestFails ==
    /\ chat.line = 71
    /\ chat' = [chat EXCEPT !.line = 0, !.ended = "RuntimeError"]
    /\ UNCHANGED conversation_history
    /\ FoodSiteUnchanged

\* Lines 80 to 88: the final message is added and the call returns
FinalReply ==
    /\ chat.line = 71
    /\ conversation_history' = Append(conversation_history, Message("assistant", "final", <<>>))
    /\ chat' = [chat EXCEPT !.line = 0, !.ended = "returned"]
    /\ FoodSiteUnchanged

\* clear_history, between two inputs of the command loop
ClearHistory ==
    /\ chat.line = 0
    /\ conversation_history' = <<>>
    /\ chat' = [chat EXCEPT !.ended = "cleared"]
    /\ FoodSiteUnchanged

NextChat ==
    \/ ChatCompletion
    \/ FirstRequestFails
    \/ ReplyWithoutToolCalls
    \/ ReplyWithToolCalls
    \/ TaskStart
    \/ TaskResume
    \/ SecondRequest
    \/ SecondRequestFails
    \/ FinalReply
    \/ ClearHistory

SpecChat == InitChat /\ [][NextChat]_vars

----------------------------------------------------------------------------
(* What the claims speak of *)

ActiveItems == get_all_restaurants(restaurants)
NumActive == Len(ActiveItems)

\* The position of an id in the frame the matrix was built from (0: absent)
FrameIndexOf(id) ==
    IF \E i \in 1..Len(restaurant_df) : restaurant_df[i].id = id
    THEN CHOOSE i \in 1..Len(restaurant_df) :
             /\ restaurant_df[i].id = id
             /\ \A j \in 1..(i - 1) : restaurant_df[j].id # id
    ELSE 0

SimilarReturned == last.op = "similar" /\ last.raised = "none"

\* C1: get_similar_restaurants(x, k) never returns x itself, whatever the
\* similarity matrix.
C1_SimilarNeverReturnsSelf ==
    SimilarReturned =>
        \A i \in 1..Len(last.result) : last.result[i] # last.arg.restaurant_id

\* C2: over a catalog with no active item every operation returns an empty
\* sequence and none raises.
C2_EmptyCatalogAllEmpty ==
    (NumActive = 0 /\ last.op # "none") =>
        (last.raised = "none" /\ last.result = <<>>)

\* The items other than row x, by descending similarity to x, equal
\* similarities in catalog order: the number of rows that come before row i
RowsBefore(x, i) ==
    {j \in (1..Len(restaurant_df)) \ {x} :
        \/ similarity_matrix[x][j] > similarity_matrix[x][i]
        \/ similarity_matrix[x][j] = similarity_matrix[x][i] /\ j < i}

\* C3: get_similar_restaurants(x, k) is the first k of the items other than
\* x, sorted by descending similarity to x, ties in catalog order.
C3_SimilarIsStableTopKOfOthers ==
    (SimilarReturned /\ engine_set /\ FrameIndexOf(last.arg.restaurant_id) # 0) =>
        LET x == FrameIndexOf(last.arg.restaurant_id)
            n == Len(restaurant_df)
        IN  /\ Len(last.result) = Min(last.arg.num_recommendations, n - 1)
            /\ \A p \in 1..Len(last.result) :
                  LET i == FrameIndexOf(last.result[p])
                  IN  i # 0 /\ i # x /\ Cardinality(RowsBefore(x, i)) = p - 1

\* C4: the length of get_similar_restaurants(x, k) is at most k and at most
\* n - 1 for a catalog of n active items.
C4_SimilarLengthBounded ==
    SimilarReturned =>
        /\ Len(last.result) <= last.arg.num_recommendations
        /\ NumActive >= 1 => Len(last.result) <= NumActive - 1

C4_Witness ==
    /\ SimilarReturned
    /\ NumActive >= 3
    /\ last.arg.num_recommendations = NumActive - 1
    /\ Len(last.result) = NumActive - 1

FrameIds(df) == {df[i].id : i \in 1..Len(df)}

\* C5: a call of get_similar_restaurants with an id that is not in the frame
\* the matrix was built from returns an empty sequence, raises nothing and
\* leaves restaurant_df and similarity_matrix as they were.
C5_UnknownIdGivesEmpty ==
    [][(/\ engine_set
        /\ pc = "idle"
        /\ last'.op = "similar"
        /\ last'.arg.restaurant_id \notin FrameIds(restaurant_df))
       => (/\ last'.result = <<>>
           /\ last'.raised = "none"
           /\ restaurant_df' = restaurant_df
           /\ similarity_matrix' = similarity_matrix)]_vars

C5_Witness ==
    /\ SimilarReturned
    /\ engine_set
    /\ Len(restaurant_df) >= 2
    /\ last.arg.restaurant_id \notin FrameIds(restaurant_df)
    /\ last.result = <<>>

IsSymmetric(M, n) ==
    /\ Len(M) = n
    /\ \A i \in 1..n : Len(M[i]) = n
    /\ \A i, j \in 1..n : M[i][j] = M[j][i]

\* C6: every diagonal entry of the combined similarity matrix is 1.0, for
\* every catalog with an active item.
C6_DiagonalIsOne ==
    engine_set =>
        \A i \in 1..Len(similarity_matrix) : similarity_matrix[i][i] = One

\* C7: the combined similarity matrix is square over the catalog's active
\* items and symmetric in every state, and so are the text and the numerical
\* similarity it combines (recomputed from the frame between two calls).
C7_MatrixSquareAndSymmetric ==
    engine_set =>
        /\ IsSymmetric(similarity_matrix, NumActive)
        /\ last.op = "none" =>
              /\ IsSymmetric(TextSimilarity(restaurant_df), NumActive)
              /\ IsSymmetric(NumericalSimilarity(restaurant_df), NumActive)

\* A matrix of three items with three different off-diagonal entries, none
\* of them 0 or 1.0
C7_Witness ==
    /\ engine_set
    /\ NumActive = 3
    /\ Cardinality({similarity_matrix[1][2], similarity_matrix[1][3],
                    similarity_matrix[2][3], 0, One}) = 5
    /\ similarity_matrix[2][1] = similarity_matrix[1][2]

----------------------------------------------------------------------------
(* Rankings *)

Range(seq) == {seq[i] : i \in 1..Len(seq)}
PosIn(seq, x) == CHOOSE p \in 1..Len(seq) : seq[p] = x

\* A function written out in full: every value evaluated once
Table(f) == f @@ <<>>

\* The responses a call sees, for the user location it was given
DetailsFor(user_location) ==
    get_restaurants_with_details(restaurants, promos,
                                 UserLat(user_location), UserLng(user_location))

\* result is the first k of a descending ranking of the ids in DOMAIN sc by
\* their score sc[id]
IsTopKRanking(result, k, sc) ==
    /\ Len(result) = Min(k, Cardinality(DOMAIN sc))
    /\ \A p \in 1..Len(result) : result[p] \in DOMAIN sc
    /\ \A p, q \in 1..Len(result) : p < q =>
          result[p] # result[q] /\ sc[result[p]] >= sc[result[q]]
    /\ \A id \in (DOMAIN sc) \ Range(result) :
          \A p \in 1..Len(result) : sc[result[p]] >= sc[id]

\* Of two ids with equal scores the one that is first in the catalog is
\* first in result (and is the one in result when only one is)
IsStableOnTies(result, sc) ==
    LET ids == Ids(DetailsFor(None))
        order == Table([id \in DOMAIN sc |-> PosIn(ids, id)])
    IN  /\ \A p, q \in 1..Len(result) :
              (p < q /\ sc[result[p]] = sc[result[q]]) =>
                  order[result[p]] < order[result[q]]
        /\ \A id \in (DOMAIN sc) \ Range(result) :
              \A p \in 1..Len(result) :
                  sc[result[p]] = sc[id] => order[result[p]] < order[id]

HasTie(result, sc) ==
    \E p, q \in 1..Len(result) : p < q /\ sc[result[p]] = sc[result[q]]

\* [id |-> f(response)] over a sequence of responses
ScoreMap(responses, f(_)) ==
    LET ids == Ids(responses)
    IN  Table([id \in Range(ids) |-> f(responses[PosIn(ids, id)])])

----------------------------------------------------------------------------
(* C8 *)

\* The distance term of the personalized score, in units of 1 / (2 * u) where
\* u is the score unit: 1 - distance / max_distance when the distance is
\* known and within max_distance, 0 when it is known and beyond, and one half
\* when it is unknown
DistanceTermHalves(response, max_distance_km) ==
    LET u == ScoreUnit(max_distance_km)
    IN  IF response.distance_km = None THEN u
        ELSE IF response.distance_km[1] <= max_distance_km
             THEN 2 * Max(0, u - response.distance_km[1])
             ELSE 0

\* 0.4 [category] + 0.2 [tier] + 0.2 (rating / 5) + 0.1 (distance term)
\* + 0.1 [promotion], in units of 1 / (2000 * u)
WeightedSum(response, arg) ==
    LET u == ScoreUnit(arg.max_distance_km)
        r == response.restaurant
    IN    800 * u * BoolInt(r.cuisine_type \in arg.preferred_cuisines)
        + 400 * u * BoolInt(r.price_range \in arg.preferred_price_range)
        + 8 * r.rating * u
        + 100 * DistanceTermHalves(response, arg.max_distance_km)
        + 200 * u * BoolInt(Len(response.current_promos) >= 1)

PersonalizedReturned == last.op = "personalized" /\ last.raised = "none"

\* A matches the preferred categories and lies within max_distance, B does
\* neither, and they agree on the price tier, the rating and the promotion
MatchesAndNear(A, B, arg) ==
    /\ A.restaurant.cuisine_type \in arg.preferred_cuisines
    /\ B.restaurant.cuisine_type \notin arg.preferred_cuisines
    /\ A.distance_km # None /\ A.distance_km[1] <= arg.max_distance_km
    /\ B.distance_km # None /\ B.distance_km[1] > arg.max_distance_km
    /\ A.restaurant.price_range = B.restaurant.price_range
    /\ A.restaurant.rating = B.restaurant.rating
    /\ (A.current_promos = <<>>) = (B.current_promos = <<>>)

\* C8: the personalized score is the weighted sum 0.4 / 0.2 / 0.2 / 0.1 / 0.1
\* and the items are ranked by it; an item that matches the preferred
\* category within max_distance scores strictly higher, and ranks before, an
\* otherwise identical item that does not match and lies beyond.
C8_PersonalizedScoreAndRanking ==
    PersonalizedReturned =>
        LET all == DetailsFor(last.arg.user_location)
            sc  == ScoreMap(all, LAMBDA r : WeightedSum(r, last.arg))
        IN  /\ \A i \in 1..Len(all) :
                  2 * PersonalizedScore(all[i], last.arg.preferred_cuisines,
                                        last.arg.preferred_price_range,
                                        last.arg.max_distance_km)
                      = WeightedSum(all[i], last.arg)
            /\ IsTopKRanking(last.result, last.arg.num_recommendations, sc)
            /\ \A i, j \in 1..Len(all) :
                  MatchesAndNear(all[i], all[j], last.arg) =>
                      /\ sc[all[i].restaurant.id] > sc[all[j].restaurant.id]
                      /\ all[j].restaurant.id \in Range(last.result) =>
                            /\ all[i].restaurant.id \in Range(last.result)
                            /\ PosIn(last.result, all[i].restaurant.id)
                                   < PosIn(last.result, all[j].restaurant.id)

\* The example: A at 2 km, B at 10 km, max_distance 5 km, both returned
C8_Witness ==
    /\ PersonalizedReturned
    /\ last.arg.max_distance_km = 5
    /\ \E i, j \in 1..Len(DetailsFor(last.arg.user_location)) :
          LET all == DetailsFor(last.arg.user_location)
          IN  /\ i > j
              /\ MatchesAndNear(all[i], all[j], last.arg)
              /\ all[i].distance_km = Some(2)
              /\ all[j].distance_km = Some(10)
              /\ all[j].restaurant.id \in Range(last.result)
              /\ PosIn(last.result, all[i].restaurant.id)
                     < PosIn(last.result, all[j].restaurant.id)

----------------------------------------------------------------------------
(* C9 *)

\* rating + 0.5 [promotion] + 0.3 [student discount] + 0.2 [lunch specials],
\* in tenths
CompositeScore(response) ==
    response.restaurant.rating
        + 5 * BoolInt(Len(response.current_promos) >= 1)
        + 3 * BoolInt(response.restaurant.student_discount)
        + 2 * BoolInt(response.restaurant.has_lunch_specials)

\* The items of the example: A(4.0, nothing), B(4.5, promotion),
\* C(3.0, student discount)
IsExampleA(r) ==
    /\ r.restaurant.rating = 40 /\ r.current_promos = <<>>
    /\ ~r.restaurant.student_discount /\ ~r.restaurant.has_lunch_specials
IsExampleB(r) ==
    /\ r.restaurant.rating = 45 /\ r.current_promos # <<>>
    /\ ~r.restaurant.student_discount /\ ~r.restaurant.has_lunch_specials
IsExampleC(r) ==
    /\ r.restaurant.rating = 30 /\ r.current_promos = <<>>
    /\ r.restaurant.student_discount /\ ~r.restaurant.has_lunch_specials

IsExampleCatalog(all) ==
    /\ Len(all) = 3
    /\ IsExampleA(all[1]) /\ IsExampleB(all[2]) /\ IsExampleC(all[3])

\* C9: get_trending_restaurants(k) is the first k of the catalog ranked by
\* the composite score, non-increasing over every adjacent pair; over the
\* example catalog A, B, C trending(3) is [B, A, C].
C9_TrendingRanking ==
    last.op = "trending" =>
        LET all == DetailsFor(None)
        IN  /\ last.raised = "none"
            /\ IsTopKRanking(last.result, last.arg.num_recommendations,
                             ScoreMap(all, CompositeScore))
            /\ \A p \in 1..(Len(last.result) - 1) :
                  CompositeScore(all[PosIn(Ids(all), last.result[p])])
                      >= CompositeScore(all[PosIn(Ids(all), last.result[p + 1])])
            /\ (IsExampleCatalog(all) /\ last.arg.num_recommendations = 3) =>
                  last.result = <<all[2].restaurant.id, all[1].restaurant.id,
                                  all[3].restaurant.id>>

C9_Witness ==
    /\ last.op = "trending"
    /\ IsExampleCatalog(DetailsFor(None))
    /\ last.arg.num_recommendations = 3
    /\ Len(last.result) = 3

----------------------------------------------------------------------------
(* C10 *)

\* The scores the last call sorted by, per id it ranked
SortKeys ==
    CASE last.op = "personalized" ->
            ScoreMap(DetailsFor(last.arg.user_location),
                     LAMBDA r : PersonalizedScore(r, last.arg.preferred_cuisines,
                                                  last.arg.preferred_price_range,
                                                  last.arg.max_distance_km))
      [] last.op = "budget_friendly" ->
            ScoreMap(DetailsFor(last.arg.user_location),
                     LAMBDA r : PersonalizedScore(r, CuisineType,
                                                  BudgetRanges(last.arg.max_price),
                                                  DefaultMaxDistance))
      [] last.op = "cuisine" ->
            ScoreMap(DetailsFor(last.arg.user_location),
                     LAMBDA r : PersonalizedScore(r, {last.arg.cuisine_type},
                                                  PriceRangeSet, DefaultMaxDistance))
      [] last.op = "trending" ->
            ScoreMap(DetailsFor(None), TrendingScore)
      [] last.op = "quick_lunch" ->
            ScoreMap(SelectSeq(DetailsFor(last.arg.user_location),
                               LAMBDA r : LunchEligible(r, last.arg.max_distance_km)),
                     LAMBDA r : r.restaurant.rating)

RankingReturned ==
    /\ last.op \in {"personalized", "budget_friendly", "cuisine", "trending", "quick_lunch"}
    /\ last.raised = "none"

\* C10: in every objective two items with equal scores come out in catalog
\* order, although the sort is a descending one.
C10_RankingStableOnTies ==
    RankingReturned => IsStableOnTies(last.result, SortKeys)

\* Two items that are not the same but for their id tie and are both returned
C10_Witness ==
    /\ RankingReturned
    /\ \E p, q \in 1..Len(last.result) :
          /\ p < q
          /\ SortKeys[last.result[p]] = SortKeys[last.result[q]]
          /\ {last.result[p], last.result[q]} # {3, 6}

----------------------------------------------------------------------------
(* C11 *)

\* The budget-friendly ranked list the student endpoint starts from
StudentBudgetIds ==
    Ids(BudgetFriendlyResponses(restaurants, promos, MODERATE,
                                EndpointLocation(last.arg.user_lat, last.arg.user_lng),
                                StudentBudgetCount).responses)

\* The restaurant with this id, and whether it has a student discount, the
\* cheapest price tier or lunch specials
ItemOf(id) == CHOOSE r \in Range(restaurants) : r.id = id
Qualifies(id) ==
    LET r == ItemOf(id)
    IN  r.student_discount \/ r.price_range = "$" \/ r.has_lunch_specials

\* The number of ids of the budget list that qualify: the second pass runs
\* when it is below 8
NumQualifying == Cardinality({id \in Range(StudentBudgetIds) : Qualifies(id)})

StudentReturned == last.op = "student_friendly" /\ last.raised = "none"

\* C11: the student-friendly list has at most 8 items and no id twice,
\* whether or not the backfill pass runs.
C11_StudentListBoundedNoDuplicates ==
    StudentReturned =>
        /\ Len(last.result) <= 8
        /\ \A p, q \in 1..Len(last.result) : p # q => last.result[p] # last.result[q]

\* The backfill pass runs over a budget list of ten and fills the list to 8
C11_Witness ==
    /\ StudentReturned
    /\ Len(StudentBudgetIds) = 10
    /\ NumQualifying \in 1..7
    /\ Len(last.result) = 8

----------------------------------------------------------------------------
(* C12 *)

\* Q: the qualifying ids of the budget list L, and R: the others, both in
\* L's order
QualifyingOf(L) == SelectSeq(L, Qualifies)
RemainingOf(L) == SelectSeq(L, LAMBDA id : ~Qualifies(id))

\* C12: the student-friendly list is the first 8 of Q followed by R; every
\* qualifying item in it precedes every non-qualifying one, and it stops at 8
\* items or when L is exhausted.
C12_StudentListIsQualifyingThenRest ==
    StudentReturned =>
        LET L == StudentBudgetIds
        IN  /\ last.result = Slice(QualifyingOf(L) \o RemainingOf(L), 0, 8)
            /\ \A p, q \in 1..Len(last.result) :
                  (Qualifies(last.result[p]) /\ ~Qualifies(last.result[q])) => p < q
            /\ Len(last.result) = Min(8, Len(L))

\* L ranks a non-qualifying item before a qualifying one, the list holds
\* both kinds and leaves out the last items of L
C12_Witness ==
    /\ StudentReturned
    /\ Len(StudentBudgetIds) > 8
    /\ \E p, q \in 1..Len(StudentBudgetIds) :
          /\ p < q
          /\ ~Qualifies(StudentBudgetIds[p]) /\ Qualifies(StudentBudgetIds[q])
          /\ StudentBudgetIds[p] \in Range(last.result)
          /\ StudentBudgetIds[q] \in Range(last.result)
    /\ \E id \in Range(StudentBudgetIds) : id \notin Range(last.result)

----------------------------------------------------------------------------
(* C13 *)

\* The response of the last call for this id
ResponseOf(id) ==
    LET all == DetailsFor(last.arg.user_location)
    IN  all[PosIn(Ids(all), id)]

\* (takeaway or lunch specials or one of the two cheapest tiers) and
\* (distance unknown or distance <= max_distance_km)
PassesLunchFilter(response, max_distance_km) ==
    /\ \/ response.restaurant.has_takeaway
       \/ response.restaurant.has_lunch_specials
       \/ response.restaurant.price_range \in {"$", "$$"}
    /\ \/ response.distance_km = None
       \/ response.distance_km[1] <= max_distance_km

\* The catalog with every restaurant put in one category
InOneCategory(rs) == [i \in 1..Len(rs) |-> [rs[i] EXCEPT !.cuisine_type = "Thai"]]

QuickLunchReturned == last.op = "quick_lunch" /\ last.raised = "none"

\* C13: every item of a quick-lunch result passes the eligibility filter and
\* the result is non-increasing in raw rating; the promotions and the
\* categories change neither the items nor their order.
C13_QuickLunchFilterAndRatingOrder ==
    QuickLunchReturned =>
        /\ \A p \in 1..Len(last.result) :
              PassesLunchFilter(ResponseOf(last.result[p]), last.arg.max_distance_km)
        /\ \A p \in 1..(Len(last.result) - 1) :
              ResponseOf(last.result[p]).restaurant.rating
                  >= ResponseOf(last.result[p + 1]).restaurant.rating
        /\ last.result = Ids(QuickLunchResponses(restaurants, <<>>, last.arg.user_location,
                                                 last.arg.max_distance_km))
        /\ last.result = Ids(QuickLunchResponses(InOneCategory(restaurants), promos,
                                                 last.arg.user_location,
                                                 last.arg.max_distance_km))

\* A result with an item of known and one of unknown distance, of different
\* ratings, while a lunch-friendly item beyond max_distance_km is left out
C13_Witness ==
    /\ QuickLunchReturned
    /\ \E p, q \in 1..Len(last.result) :
          /\ ResponseOf(last.result[p]).distance_km # None
          /\ ResponseOf(last.result[q]).distance_km = None
          /\ ResponseOf(last.result[p]).restaurant.rating
                 > ResponseOf(last.result[q]).restaurant.rating
    /\ \E r \in Range(DetailsFor(last.arg.user_location)) :
          /\ r.restaurant.has_takeaway
          /\ r.distance_km # None /\ r.distance_km[1] > last.arg.max_distance_km
          /\ r.restaurant.id \notin Range(last.result)

----------------------------------------------------------------------------
(* C14 *)

\* What the last personalized or trending call returns when it is made with
\* k results asked for and everything else the same
ResultFor(k) ==
    IF last.op = "personalized"
    THEN Ids(PersonalizedResponses(restaurants, promos, last.arg.preferred_cuisines,
                                   last.arg.preferred_price_range, last.arg.user_location,
                                   last.arg.max_distance_km, k).responses)
    ELSE Ids(TrendingResponses(restaurants, promos, k))

PersonalizedOrTrendingReturned ==
    last.op \in {"personalized", "trending"} /\ last.raised = "none"

\* C14: personalized(k) and trending(k) return the first min(k, n) items of
\* the descending ranking of all n active items, none of which is dropped,
\* so the result for k is a prefix of the result for k + 1.
C14_FirstKOfFullRanking ==
    PersonalizedOrTrendingReturned =>
        LET k == last.arg.num_recommendations
            full == ResultFor(NumActive)
        IN  /\ Len(last.result) = Min(k, NumActive)
            /\ Range(full) = Range(Ids(DetailsFor(None)))
            /\ Len(full) = NumActive
            /\ IsTopKRanking(full, NumActive, SortKeys)
            /\ last.result = Slice(full, 0, k)
            /\ last.result = Slice(ResultFor(k + 1), 0, k)

\* A personalized call for fewer items than the catalog has returns an item
\* that is beyond max_distance_km and matches no preference
C14_Witness ==
    /\ last.op = "personalized" /\ last.raised = "none"
    /\ last.arg.num_recommendations < NumActive
    /\ \E p \in 1..Len(last.result) :
          LET r == ResponseOf(last.result[p])
          IN  /\ r.distance_km # None /\ r.distance_km[1] > last.arg.max_distance_km
              /\ r.restaurant.cuisine_type \notin last.arg.preferred_cuisines
              /\ r.restaurant.price_range \notin last.arg.preferred_price_range

----------------------------------------------------------------------------
(* C15 *)

\* The operations of the core that take a catalog and a context
CoreCalled ==
    last.op \in {"personalized", "budget_friendly", "cuisine", "trending", "quick_lunch"}

\* C15: for every catalog, k >= 1, max_distance >= 0 (zero included) and
\* item distance >= 0 or unknown, the personalized, budget, cuisine,
\* trending and quick-lunch operations return a sequence and raise nothing.
C15_CoreRaisesNothing ==
    CoreCalled => last.raised = "none"

----------------------------------------------------------------------------
(* C16 *)

\* A request whose result count is non-positive or whose max distance is
\* negative
Malformed(arg) ==
    \/ "num_recommendations" \in DOMAIN arg /\ arg.num_recommendations <= 0
    \/ "max_distance_km" \in DOMAIN arg /\ arg.max_distance_km < 0

\* C16: on every endpoint, the personalized one included, a request with a
\* non-positive result count or a negative max distance is rejected before
\* any RecommendationService method runs.
C16_MalformedRequestRejected ==
    (last.op # "none" /\ Malformed(last.arg)) => pc = "rejected"

----------------------------------------------------------------------------
(* C17 *)

\* The outcome of running the last call again, in the current state and at
\* the current time
Rerun ==
    CASE last.op = "similar" ->
            get_similar_restaurants(engine_set, restaurant_df, similarity_matrix,
                                    restaurants, promos, last.arg.restaurant_id,
                                    last.arg.num_recommendations)
      [] last.op = "personalized" ->
            Outcome(PersonalizedResponses(restaurants, promos, last.arg.preferred_cuisines,
                        last.arg.preferred_price_range, last.arg.user_location,
                        last.arg.max_distance_km, last.arg.num_recommendations))
      [] last.op = "budget_friendly" ->
            Outcome(BudgetFriendlyResponses(restaurants, promos, last.arg.max_price,
                        last.arg.user_location, last.arg.num_recommendations))
      [] last.op = "cuisine" ->
            Outcome(CuisineResponses(restaurants, promos, last.arg.cuisine_type,
                        last.arg.user_location, last.arg.num_recommendations))
      [] last.op = "trending" ->
            Returns(Ids(TrendingResponses(restaurants, promos,
                                          last.arg.num_recommendations)))
      [] last.op = "quick_lunch" ->
            Returns(Ids(QuickLunchResponses(restaurants, promos, last.arg.user_location,
                                            last.arg.max_distance_km)))
      [] last.op = "student_friendly" ->
            Returns(Ids(StudentFriendlyResponses(restaurants, promos,
                                                 last.arg.user_lat, last.arg.user_lng)))

\* C17: a call run again with the same catalog, promotions and context
\* returns the same ordered sequence of ids, whatever the clock shows when
\* the responses are built and whatever was called in between.
C17_SameCallSameResult ==
    (last.op # "none" /\ last.at # now) =>
        /\ Rerun.result = last.result
        /\ Rerun.raised = last.raised

\* A ranking was returned on one day and the clock now shows another, on
\* which a returned restaurant that was closed is open
C17_Witness ==
    /\ last.op \in {"personalized", "trending"} /\ last.raised = "none"
    /\ last.at # now
    /\ Len(last.result) >= 2
    /\ \E p \in 1..Len(last.result) :
          /\ ~IsOpenOn(ItemOf(last.result[p]), last.at)
          /\ IsOpenOn(ItemOf(last.result[p]), now)

----------------------------------------------------------------------------
(* C18 *)

----------------------------------------------------------------------------
(* C19 *)

\* C19: the distance contribution to the personalized score, in units of
\* 1 / (1000 * u), is 0.1 * max(0, 1 - distance / max_distance) for a known
\* distance within max_distance, 0 for a known distance beyond it and a flat
\* 0.05 for an unknown one; it lies in [0, 0.1], and an unknown distance gets
\* more than any distance known to be beyond half of max_distance.
C19_DistanceContribution ==
    PersonalizedReturned =>
        LET all == DetailsFor(last.arg.user_location)
            m == last.arg.max_distance_km
            u == ScoreUnit(m)
            term(r) == DistanceScore(r, m)
        IN  /\ \A i \in 1..Len(all) :
                  /\ (all[i].distance_km # None /\ all[i].distance_km[1] <= m) =>
                        /\ u = m
                        /\ term(all[i]) = 100 * Max(0, m - all[i].distance_km[1])
                  /\ (all[i].distance_km # None /\ all[i].distance_km[1] > m) =>
                        term(all[i]) = 0
                  /\ all[i].distance_km = None => term(all[i]) = 50 * u
                  /\ term(all[i]) >= 0 /\ term(all[i]) <= 100 * u
            /\ \A i, j \in 1..Len(all) :
                  (/\ all[i].distance_km = None
                   /\ all[j].distance_km # None
                   /\ 2 * all[j].distance_km[1] > m) =>
                      term(all[i]) > term(all[j])

\* The call scored an item of unknown distance, one within max_distance and
\* beyond half of it with a positive term, and one beyond max_distance
C19_Witness ==
    /\ PersonalizedReturned
    /\ \E a, b, c \in Range(DetailsFor(last.arg.user_location)) :
          /\ a.distance_km = None
          /\ b.distance_km # None
          /\ b.distance_km[1] < last.arg.max_distance_km
          /\ 2 * b.distance_km[1] > last.arg.max_distance_km
          /\ c.distance_km # None /\ c.distance_km[1] > last.arg.max_distance_km
          /\ {a.restaurant.id, b.restaurant.id, c.restaurant.id} \subseteq Range(last.result)

----------------------------------------------------------------------------
(* C20 *)

\* The preferred tiers the claim gives for a ceiling
TiersFor(max_price) == IF max_price = "$" THEN {"$"} ELSE {"$", "$$"}

\* C20: budget_friendly(max_price, location, k) returns what personalized
\* returns for all categories, the tiers {cheapest} (ceiling = cheapest) or
\* {cheapest, next tier} (higher ceilings), the same location, the default
\* max distance of 10 km and the same k.
C20_BudgetIsPersonalized ==
    last.op = "budget_friendly" =>
        LET same == PersonalizedResponses(restaurants, promos, CuisineType,
                                          TiersFor(last.arg.max_price),
                                          last.arg.user_location, 10,
                                          last.arg.num_recommendations)
        IN  /\ last.result = Ids(same.responses)
            /\ last.raised = same.raised

\* A ceiling above the second tier, a user location, and an item of the third
\* tier returned behind a cheaper one
C20_Witness ==
    /\ last.op = "budget_friendly" /\ last.raised = "none"
    /\ last.arg.max_price \in {"$$$", "$$$$"}
    /\ last.arg.user_location # None
    /\ \E p, q \in 1..Len(last.result) :
          /\ p < q
          /\ ItemOf(last.result[p]).price_range \in {"$", "$$"}
          /\ ItemOf(last.result[q]).price_range = "$$$"

----------------------------------------------------------------------------
(* C21 *)

AllTiers == {"$", "$$", "$$$", "$$$$"}

\* C21: by_category(category, location, k) returns what personalized returns
\* for preferred categories = {category}, all tiers as preferred tiers, the
\* same location, the default max distance of 10 km and the same k; every
\* item the call scores gets the full 0.2 price contribution.
C21_CategoryIsPersonalized ==
    last.op = "cuisine" =>
        LET same == PersonalizedResponses(restaurants, promos,
                                          {last.arg.cuisine_type}, AllTiers,
                                          last.arg.user_location, 10,
                                          last.arg.num_recommendations)
            all == DetailsFor(last.arg.user_location)
        IN  /\ last.result = Ids(same.responses)
            /\ last.raised = same.raised
            /\ \A i \in 1..Len(all) :
                  PersonalizedScore(all[i], {last.arg.cuisine_type}, AllTiers, 10)
                      = PersonalizedScore(all[i], {last.arg.cuisine_type}, {}, 10) + 200 * 10

\* A call with a user location that returned an item of the third tier ahead
\* of an item of a cheaper tier, and an item of another category
C21_Witness ==
    /\ last.op = "cuisine" /\ last.raised = "none"
    /\ last.arg.user_location # None
    /\ \E p, q \in 1..Len(last.result) :
          /\ p < q
          /\ ItemOf(last.result[p]).price_range = "$$$"
          /\ ItemOf(last.result[q]).price_range \in {"$", "$$"}
    /\ \E p \in 1..Len(last.result) :
          ItemOf(last.result[p]).cuisine_type # last.arg.cuisine_type

----------------------------------------------------------------------------
(* C24 *)

\* C24: every item get_budget_friendly_recommendations(max_price, ...) returns
\* has a price tier no higher than max_price.
C24_BudgetWithinCeiling ==
    (last.op = "budget_friendly" /\ last.raised = "none") =>
        \A p \in 1..Len(last.result) :
            PriceNumeric(ItemOf(last.result[p]).price_range)
                <= PriceNumeric(last.arg.max_price)

----------------------------------------------------------------------------
(* C25 *)

CategoryReturned == last.op = "cuisine" /\ last.raised = "none"

\* The score a call by category gives a response, in units of 1 / 10000
CategoryScore(response) ==
    PersonalizedScore(response, {last.arg.cuisine_type}, AllTiers, 10)

CatalogPos(id) == CHOOSE i \in 1..Len(restaurants) : restaurants[i].id = id

\* x is ranked ahead of y by the call: x comes first in the result, or x is
\* in the result and y was cut off
RankedAhead(x, y) ==
    /\ x \in Range(last.result)
    /\ y \in Range(last.result) => PosIn(last.result, x) < PosIn(last.result, y)

\* C25: in by_category(c, ...), an item of another category never scores
\* strictly higher than an item of category c: the former gets at most 0.6,
\* the latter at least 0.6; an item of another category is ranked ahead of
\* an item of category c only when their scores are equal and it comes
\* earlier in the catalog.
C25_OtherCategoryNeverAbove ==
    CategoryReturned =>
        LET all == DetailsFor(last.arg.user_location)
            matches(r) == r.restaurant.cuisine_type = last.arg.cuisine_type
        IN  \A i, j \in 1..Len(all) :
                (matches(all[i]) /\ ~matches(all[j])) =>
                    /\ CategoryScore(all[j]) <= 6000
                    /\ CategoryScore(all[i]) >= 6000
                    /\ CategoryScore(all[j]) <= CategoryScore(all[i])
                    /\ RankedAhead(all[j].restaurant.id, all[i].restaurant.id) =>
                          /\ CategoryScore(all[j]) = CategoryScore(all[i])
                          /\ j < i

\* Both extremes at once: the call scored and returned an item of another
\* category with rating 5, at distance 0 and with a promotion, and an item
\* of the category with rating 0, beyond the max distance and without a
\* promotion
C25_Witness ==
    /\ CategoryReturned
    /\ \E a, b \in Range(DetailsFor(last.arg.user_location)) :
          /\ a.restaurant.cuisine_type # last.arg.cuisine_type
          /\ a.restaurant.rating = 50
          /\ a.distance_km = Some(0)
          /\ a.current_promos # <<>>
          /\ b.restaurant.cuisine_type = last.arg.cuisine_type
          /\ b.restaurant.rating = 0
          /\ b.distance_km # None /\ b.distance_km[1] > 10
          /\ b.current_promos = <<>>
          /\ {a.restaurant.id, b.restaurant.id} \subseteq Range(last.result)

----------------------------------------------------------------------------
(* C26 *)

\* The restaurant with this id is in the catalog and is_active
IsActiveNow(id) ==
    \E i \in 1..Len(restaurants) : restaurants[i].id = id /\ restaurants[i].is_active

\* The ids get_similar_restaurants takes from its frame for the last call:
\* the k entries after the first of the sorted row
TopOfFrame ==
    LET restaurant_idx == FrameIndexOf(last.arg.restaurant_id)
        row == similarity_matrix[restaurant_idx]
        top == ExcludeSelf(SortedReverse([j \in 1..Len(row) |-> <<j, row[j]>>]),
                           last.arg.num_recommendations)
    IN  [i \in 1..Len(top) |-> restaurant_df[top[i][1]].id]

\* C26: every item a recommendation operation returns has is_active = true
\* at the time of the call; get_similar_restaurants returns the ids it takes
\* from the frame built at construction time without those that are no
\* longer active, and puts nothing in their place.
C26_OnlyActiveItemsReturned ==
    pc = "done" =>
        /\ \A p \in 1..Len(last.result) : IsActiveNow(last.result[p])
        /\ (/\ last.op = "similar" /\ last.raised = "none"
            /\ FrameIndexOf(last.arg.restaurant_id) # 0) =>
               last.result = SelectSeq(TopOfFrame, IsActiveNow)

\* A similarity query after a deactivation: one of the ids taken from the
\* frame is no longer active and is dropped, so the result is shorter than
\* k although the catalog has an active restaurant that is not returned
C26_Witness ==
    /\ pc = "done" /\ last.op = "similar" /\ last.raised = "none"
    /\ FrameIndexOf(last.arg.restaurant_id) # 0
    /\ \E id \in Range(TopOfFrame) : ~IsActiveNow(id)
    /\ Len(last.result) < last.arg.num_recommendations
    /\ \E i \in 1..Len(restaurants) :
          /\ restaurants[i].is_active
          /\ restaurants[i].id # last.arg.restaurant_id
          /\ restaurants[i].id \notin Range(last.result)

----------------------------------------------------------------------------
(* C22 *)

ActiveIds ==
    LET act == get_all_restaurants(restaurants)
    IN  [i \in 1..Len(act) |-> act[i].id]

\* C22: when the set of active items has changed after construction, the
\* frame and the matrix are rebuilt before the next similarity query is
\* answered: an answered query uses the frame and the matrix of the active
\* items of the catalog as it is at the call.
C22_RebuiltBeforeNextQuery ==
    (pc = "done" /\ SimilarReturned) =>
        /\ [i \in 1..Len(restaurant_df) |-> restaurant_df[i].id] = ActiveIds
        /\ similarity_matrix = SetupSimilarityMatrix(restaurants)

----------------------------------------------------------------------------
(* C23 *)

\* C23: a similarity query interleaved with _setup_recommendation_engine
\* never finds a frame from one catalog snapshot together with a matrix
\* from another, or a frame without a matrix: whenever a query runs, the
\* matrix is the one computed from the frame.
C23_FrameAndMatrixPublishedTogether ==
    (pc = "done" /\ last.op = "similar") =>
        /\ restaurant_df # <<>> => engine_set
        /\ engine_set => similarity_matrix = _calculate_similarity_matrix(restaurant_df)

----------------------------------------------------------------------------
(* C27 *)

\* The eligible responses of the last quick-lunch call, in catalog order
EligibleForLunch ==
    List(SelectSeq(DetailsFor(last.arg.user_location),
                   LAMBDA r : PassesLunchFilter(r, last.arg.max_distance_km)))

\* The place of the i-th eligible item in the rating order: one more than
\* the number of eligible items rated higher, or rated the same and earlier
\* in the catalog
LunchRank(elig, i) ==
    1 + Cardinality({j \in 1..Len(elig) :
                        \/ elig[j].restaurant.rating > elig[i].restaurant.rating
                        \/ /\ elig[j].restaurant.rating = elig[i].restaurant.rating
                           /\ j < i})

\* C27: get_quick_lunch_recommendations returns exactly min(8, E) items for
\* E eligible items: the eligible items of rank 1 to 8 in rating order, and
\* never one of rank 9 or lower.
C27_QuickLunchExactlyEight ==
    QuickLunchReturned =>
        LET elig == EligibleForLunch
        IN  /\ Len(last.result) = Min(8, Len(elig))
            /\ \A i \in 1..Len(elig) :
                  IF LunchRank(elig, i) <= 8
                  THEN last.result[LunchRank(elig, i)] = elig[i].restaurant.id
                  ELSE elig[i].restaurant.id \notin Range(last.result)

\* More than eight eligible items: eight of two ratings are returned, and
\* an eligible item that comes before them in the catalog, rated lower, is
\* not
C27_Witness ==
    /\ QuickLunchReturned
    /\ Len(EligibleForLunch) > 8
    /\ Len(last.result) = 8
    /\ \E p, q \in 1..8 :
          ItemOf(last.result[p]).rating > ItemOf(last.result[q]).rating
    /\ \E r \in Range(EligibleForLunch) :
          /\ r.restaurant.id \notin Range(last.result)
          /\ \A p \in 1..8 :
                /\ CatalogPos(r.restaurant.id) < CatalogPos(last.result[p])
                /\ r.restaurant.rating < ItemOf(last.result[p]).rating

----------------------------------------------------------------------------
(* C28 *)

\* The budget-friendly ranking (ceiling = moderate tier) of all active
\* restaurants for the location of the last student-friendly call
FullBudgetRanking ==
    Ids(BudgetFriendlyResponses(restaurants, promos, "$$",
                                EndpointLocation(last.arg.user_lat, last.arg.user_lng),
                                NumActive).responses)

\* C28: the student-friendly list has exactly min(8, n) items for n active
\* restaurants, all of them among the first 10 of the budget-friendly
\* ranking; an item of rank 11 or lower never appears, qualifying or not.
C28_StudentListFromTopTen ==
    StudentReturned =>
        LET ranking == FullBudgetRanking
        IN  /\ Len(ranking) = NumActive
            /\ Len(last.result) = Min(8, NumActive)
            /\ \A p \in 1..Len(last.result) :
                  \E i \in 1..Min(10, Len(ranking)) : ranking[i] = last.result[p]
            /\ \A i \in 11..Len(ranking) : ranking[i] \notin Range(last.result)

\* The item of rank 11 qualifies and is left out, while items that do not
\* qualify fill the list
C28_Witness ==
    /\ StudentReturned
    /\ Len(FullBudgetRanking) >= 11
    /\ Qualifies(FullBudgetRanking[11])
    /\ FullBudgetRanking[11] \notin Range(last.result)
    /\ Len(last.result) = 8
    /\ \E p \in 1..Len(last.result) : ~Qualifies(last.result[p])

----------------------------------------------------------------------------
(* C29 *)

\* What the history has gained since the chat_completion call began
Gained ==
    SubSeq(conversation_history, Len(chat.before) + 1, Len(conversation_history))

\* The number of tool messages for this tool-call id among the messages
ToolMessagesFor(messages, id) ==
    Cardinality({k \in 1..Len(messages) :
                    messages[k].role = "tool" /\ messages[k].tool_call_id = id})

\* The call in hand, or the one that ended last, got a reply with tool calls
\* and the history has not been cleared since
WithToolCalls == chat.tool_calls # <<>> /\ chat.ended # "cleared"

\* C29: when the reply carries n tool calls the history gains the user
\* message, the assistant message with the tool calls, one tool message per
\* tool-call id (whatever the tool call leads to and in whatever order the
\* tasks end) and then the final assistant message; the second request is
\* made only when all n tool results are in the history.
C29_ToolCallHistoryOrder ==
    WithToolCalls =>
        LET n == Len(chat.tool_calls)
            g == Gained
        IN  /\ SubSeq(conversation_history, 1, Len(chat.before)) = chat.before
            /\ Len(g) >= 2
            /\ g[1] = [role |-> "user", content |-> chat.message,
                       tool_calls |-> <<>>, tool_call_id |-> 0]
            /\ g[2].role = "assistant"
            /\ g[2].tool_calls = [i \in 1..n |-> chat.tool_calls[i].id]
            /\ \A k \in 3..Min(Len(g), n + 2) : g[k].role = "tool"
            /\ \A i \in 1..n :
                  ToolMessagesFor(g, chat.tool_calls[i].id)
                      = IF chat.tasks[i] = "done" THEN 1 ELSE 0
            /\ chat.line = 71 =>
                  /\ Len(g) = n + 2
                  /\ \A i \in 1..n : ToolMessagesFor(chat.sent, chat.tool_calls[i].id) >= 1
                  /\ chat.sent = conversation_history
            /\ chat.ended = "returned" =>
                  /\ Len(g) = n + 3
                  /\ \A i \in 1..n : ToolMessagesFor(g, chat.tool_calls[i].id) = 1
                  /\ g[n + 3].role = "assistant" /\ g[n + 3].tool_calls = <<>>

\* A call with two tool calls has returned; the task of the second ended
\* first, and one of the two did not give a result
C29_Witness ==
    /\ WithToolCalls
    /\ chat.ended = "returned"
    /\ Len(chat.tool_calls) = 2
    /\ Gained[3].tool_call_id = 2 /\ Gained[4].tool_call_id = 1
    /\ \E k \in {3, 4} : Gained[k].content # "json of the result"

----------------------------------------------------------------------------
(* C30 *)

UserMessage(message) ==
    [role |-> "user", content |-> message, tool_calls |-> <<>>, tool_call_id |-> 0]

\* After a failed request the history is what it was before the call, the
\* user message and, when the second request failed, the assistant message
\* with the tool calls and one tool message per tool call
FailureKeepsMessages ==
    chat.ended = "RuntimeError" =>
        LET n == Len(chat.tool_calls)
            g == Gained
        IN  /\ chat.line = 0
            /\ SubSeq(conversation_history, 1, Len(chat.before)) = chat.before
            /\ g # <<>> /\ g[1] = UserMessage(chat.message)
            /\ n = 0 => g = <<UserMessage(chat.message)>>
            /\ n > 0 =>
                  /\ Len(g) = n + 2
                  /\ g[2].role = "assistant" /\ g[2].tool_calls # <<>>
                  /\ \A i \in 1..n : ToolMessagesFor(g, chat.tool_calls[i].id) = 1

\* The first request of a call carries the history as it was, the user
\* message of a failed call included, and the message of this call
RequestCarriesHistory ==
    chat.line = 46 => chat.sent = Append(chat.before, UserMessage(chat.message))

\* C30: when a request inside chat_completion fails the call raises
\* RuntimeError and the history keeps what the call added (the user message;
\* after a failure of the second request also the assistant message with the
\* tool calls and the tool results); the failing step changes nothing, a
\* retry sends the history with the message once more, and the history gets
\* shorter by clear_history alone.
C30_FailureRollsNothingBack ==
    /\ [](FailureKeepsMessages /\ RequestCarriesHistory)
    /\ [][/\ (chat.line # 0 /\ chat'.ended = "RuntimeError") =>
                 conversation_history' = conversation_history
          /\ Len(conversation_history') < Len(conversation_history) =>
                 (chat.line = 0 /\ chat'.ended = "cleared")]_vars

\* A retry after a failed first request: the request in flight carries the
\* same user message twice in a row, the first without a reply
C30_Witness ==
    /\ chat.line = 46
    /\ chat.calls = 2
    /\ Len(chat.sent) >= 2
    /\ chat.sent[Len(chat.sent)] = UserMessage(chat.message)
    /\ chat.sent[Len(chat.sent) - 1] = UserMessage(chat.message)

====
